---------------------------- MODULE Spec2Model ----------------------------
(***************************************************************************)
(* A model of the light-parser combinator engine (pkuyo/light-parser).     *)
(*                                                                         *)
(* Parser nodes are values that hold their children by value, exactly as   *)
(* the C++ class templates of compile_time_parser.h do; a node is a record *)
(* and a grammar is a nested record.  peek_impl and parse_impl are         *)
(* translated combinator by combinator.  A parse_impl call is evaluated    *)
(* as a whole (it is a plain synchronous recursive call chain); what it    *)
(* did is kept in a trace of events (enter, exit, recovery, handler,       *)
(* throw, catch, on_error, save, restore, state, action) so that           *)
(* the order of calls inside one Parse can be stated.                      *)
(***************************************************************************)
EXTENDS Integers, Sequences, FiniteSets, TLC

VARIABLES
    source,         \* basic_string_stream / container_stream :: source
    position,       \* basic_string_stream / container_stream :: position
    parser,         \* the parser tree the caller built (immutable afterwards)
    error_handler,  \* parser_error_handler<token_type>::error_handler (static)
    newState,       \* state_parser::factory()::newState, one static per state_parser type
    global_state,   \* the caller's Global State
    user_state,     \* the caller's own Local State (three-argument Parse)
    result,         \* what the last Parse / Peek call returned
    exception,      \* the parser_exception that left the last Parse call, if any
    trace,          \* what the last Parse call did, in order
    pc,             \* "ready" | "returned" | "threw" | "hung" | "peeked"
    calls,          \* number of Parse / Peek calls made so far
    file_stream,    \* the members of a file_stream over the bytes of source
    returned,       \* what the last stream call returned, and the in-memory stream's answer
    parser_name     \* _abstract_parser::parser_name of a node, and the bytes that follow it

vars == <<source, position, parser, error_handler, newState, global_state,
          user_state, result, exception, trace, pc, calls, file_stream, returned,
          parser_name>>

-----------------------------------------------------------------------------
(* Bounds of the model *)

\* longest token source
MaxLen == 3
\* Parse / Peek calls per behaviour
MaxCalls == 2
\* iterations after which a loop that never repeats a state is cut (never reached)
MaxIter == 8

Tokens == {"a", "b", "c"}

\* value_type{} / source[size] of a std::string: what Peek yields at end of input
NUL == ""

RECURSIVE SeqsUpTo(_)
SeqsUpTo(n) ==
    IF n = 0 THEN {<<>>}
    ELSE LET S == SeqsUpTo(n - 1)
         IN  S \cup {Append(s, t) : s \in {x \in S : Len(x) = n - 1}, t \in Tokens}

Sources == SeqsUpTo(MaxLen)

\* the characters of the LazyParser test: digits, and one that is not a digit
Digits == {"1", "2", "3"}
DigitTokens == Digits \cup {"x"}

RECURSIVE DigitSeqsUpTo(_)
DigitSeqsUpTo(n) ==
    IF n = 0 THEN {<<>>}
    ELSE LET S == DigitSeqsUpTo(n - 1)
         IN  S \cup {Append(s, t) : s \in {x \in S : Len(x) = n - 1}, t \in DigitTokens}

DigitSources == DigitSeqsUpTo(MaxLen)

\* t - '0'
DigitValue(t) == CASE t = "1" -> 1 [] t = "2" -> 2 [] t = "3" -> 3

-----------------------------------------------------------------------------
(* Results: std::optional<result_type>.  A value carries its C++ type as k. *)

Unit == [k |-> "unit"]
TokV(t) == [k |-> "tok", v |-> t]
StrV(s) == [k |-> "str", e |-> s]
SeqV(s) == [k |-> "seq", e |-> s]
TupV(s) == [k |-> "tuple", e |-> s]
OptV(h, v) == [k |-> "opt", has |-> h, v |-> v]
IntV(i) == [k |-> "int", i |-> i]
\* what an optional returned without a value being produced holds
Garbage == [k |-> "indeterminate"]

NoValue == [k |-> "none"]
NoExc == [thrown |-> FALSE]


-----------------------------------------------------------------------------
(* The stream, as seen from inside one Parse call.  A call works on a       *)
(* record st: the cursor, the two states, the statics, and the trace.       *)

\* base_token_stream::Eof(lookahead)
Eof(st, lookahead) == st.pos + lookahead >= Len(source)

\* base_token_stream::Peek(lookahead): the token, or the default token at the end
Peek(st, lookahead) ==
    IF st.pos + lookahead < Len(source) THEN source[st.pos + lookahead + 1] ELSE NUL

\* base_token_stream::Seek(length)
Seek(st, length) == [st EXCEPT !.pos = @ + length]

\* base_token_stream::Get(): container_stream does not advance at the end
Get(st) == IF st.pos < Len(source) THEN [st EXCEPT !.pos = @ + 1] ELSE st

\* base_token_stream::Value(): a std::string, "EOF" at the end, else the token printed
Value(st) == IF Eof(st, 0) THEN <<"E", "O", "F">> ELSE <<Peek(st, 0)>>

\* what a std::string_view reads once the std::string it points into is destroyed
Dangling(st, str) == IF st.ub THEN <<"indeterminate">> ELSE str

\* one event of the trace
Event(e, p, path, st, ok, val, x) ==
    [e |-> e, t |-> p.t, path |-> path, pos |-> st.pos, ok |-> ok, val |-> val, x |-> x]

Log(st, ev) == [st EXCEPT !.trace = Append(@, ev)]

\* Save(): the position to come back to
Save(st) == st.pos

\* Restore(state): back to a saved position
Restore(st, stream_state) == [st EXCEPT !.pos = stream_state]

-----------------------------------------------------------------------------
(* Parser nodes.  Every node has the fields of _abstract_parser: no_error   *)
(* and error_handler (eh: "none" = not set, "quiet" = a handler that        *)
(* returns, "throw" = a handler that throws parser_exception).              *)

Node(t) == [t |-> t, no_error |-> FALSE, eh |-> "none", name |-> <<>>]

\* base_parser::NoError / NoError_Internal: sets the flag of this node only
NoError(p) == [p EXCEPT !.no_error = TRUE]

\* base_parser::OnError
OnError(p, h) == [p EXCEPT !.eh = h]

\* base_parser::Name
Name(p, name) == [p EXCEPT !.name = name]

Check(v) == Name(Node("check"), <<v>>) @@ [v |-> v]
SingleValue(v) == Name(Node("single"), <<v>>) @@ [v |-> v]
Str(lit) == Name(Node("str"), lit) @@ [lit |-> lit]
SeqCheck(lit) == Node("seq_check") @@ [lit |-> lit]
SeqValue(lit) == Node("seq_value") @@ [lit |-> lit]
Until(v) == Node("until") @@ [v |-> v]
Then(l, r) == Node("then") @@ [l |-> l, r |-> r]
Or(l, r) == Node("or") @@ [l |-> l, r |-> r]
\* Or_BackTrack: parser_or<..,true>(left.NoError(), right.NoError())
Or_BackTrack(l, r) == Node("or_bt") @@ [l |-> NoError(l), r |-> NoError(r)]
Many(c) == Node("many") @@ [c |-> c]
More(c) == Node("more") @@ [c |-> c]
Optional(c) == Node("optional") @@ [c |-> c]
Not(c) == Node("not") @@ [c |-> c]
Pred(c) == Node("pred") @@ [c |-> c]
Ignore(c) == Node("ignore") @@ [c |-> c]
Map(c, f) == Node("map") @@ [c |-> c, f |-> f]
Action(c, f) == Node("action") @@ [c |-> c, f |-> f]
Where(c, f) == Node("where") @@ [c |-> c, f |-> f]
\* Lazy<token_type, real_type>(): real names the type real_type
Lazy(real) == Node("lazy") @@ [real |-> real]
\* WithState<State>(parser): ty names the type state_parser<Parser, State>
WithState(ty, c) == Node("state") @@ [ty |-> ty, c |-> c]
\* TryCatch(parser, recovery) / TryCatch(parser, recovery, on_error)
TryCatch(c, recovery) == Node("try_catch") @@ [c |-> c, recovery |-> recovery, on_error |-> "nop"]
TryCatchOn(c, recovery, on_error) ==
    Node("try_catch") @@ [c |-> c, recovery |-> recovery, on_error |-> on_error]
\* Sync<token_type, is_after_this>(sync_point)
Sync(v, is_after_this) == Node("sync") @@ [v |-> v, is_after_this |-> is_after_this]

\* SingleValue<token_type>(compare_func): parser_with_func
SingleValueFunc(f) == Node("with_func") @@ [f |-> f]

\* struct LazyTest : base_parser<char, LazyTest>, the real_type of the LazyParser test
LazyTest == Node("lazy_test")

\* lazy_parser of the LazyParser test
lazy_parser ==
    Map(Then(Map(SingleValueFunc("isdigit"), "digit"), Lazy("LazyTest")), "sum")

\* the action of the StateParser test on one token
CountA == Action(Check("a"), "count")

\* parser_lazy::factory(): the real_type objects of the grammars.  A real_type
\* forwards parse_impl and peek_impl to a parser declared elsewhere, as LazyTest,
\* LazyExpr and lazy_element do.
Real(real) ==
    CASE real = "counted" -> WithState("S1", Many(CountA))
      [] real = "digits" ->
            Optional(Then(SingleValue("a"), Lazy("digits")))
      [] real = "LazyTest" -> LazyTest

\* the compare functions of the grammars
ApplyFunc(f, t) == CASE f = "isdigit" -> t \in Digits

-----------------------------------------------------------------------------
(* peek_impl of every node: a function of the stream alone *)

RECURSIVE PeekImpl(_, _)
\* a try_catch_parser that peeks where its parser or its recovery does
PeekTryCatch_Either(p, st) == PeekImpl(p.c, st) \/ PeekImpl(p.recovery, st)

\* try_catch_parser::peek_impl
PeekTryCatch(p, st) == PeekImpl(p.c, st)

PeekImpl(p, st) ==
    CASE p.t \in {"check", "single"} -> ~Eof(st, 0) /\ Peek(st, 0) = p.v
      [] p.t = "str" -> ~Eof(st, 0) /\ Peek(st, 0) = p.lit[1]
      [] p.t = "seq_check" ->
            \A i \in 0 .. Len(p.lit) - 1 : ~Eof(st, i) /\ Peek(st, i) = p.lit[i + 1]
      [] p.t = "until" -> ~(Eof(st, 0) \/ Peek(st, 0) = p.v)
      [] p.t = "then" -> PeekImpl(p.l, st)
      [] p.t \in {"or", "or_bt"} -> PeekImpl(p.l, st) \/ PeekImpl(p.r, st)
      [] p.t \in {"many", "optional", "sync"} -> TRUE
      [] p.t = "not" -> ~PeekImpl(p.c, st)
      [] p.t \in {"more", "pred", "ignore", "map", "action", "where", "state"} ->
            PeekImpl(p.c, st)
      [] p.t = "try_catch" -> PeekTryCatch(p, st)
      [] p.t = "lazy" -> PeekImpl(Real(p.real), st)
      [] p.t = "with_func" -> ~Eof(st, 0) /\ ApplyFunc(p.f, Peek(st, 0))
      [] p.t = "lazy_test" -> PeekImpl(lazy_parser, st)

-----------------------------------------------------------------------------
(* Result types: whether a node's result_type is nullptr_t *)

RECURSIVE IsUnit(_)
IsUnit(p) ==
    CASE p.t \in {"check", "seq_check", "not", "pred", "ignore", "sync"} -> TRUE
      [] p.t \in {"single", "str", "until", "optional", "map", "with_func",
                  "lazy_test"} -> FALSE
      [] p.t \in {"then", "or", "or_bt"} -> IsUnit(p.l) /\ IsUnit(p.r)
      [] p.t \in {"many", "more", "action", "where", "state", "try_catch"} -> IsUnit(p.c)
      [] p.t = "lazy" -> IsUnit(Real(p.real))

\* a parser_then that pairs the two results whatever their types
ThenValue_Pair(l, r, left, right) == TupV(<<left, right>>)

\* parser_then::parse_impl, the value returned: a unit operand is dropped, tuples are
\* concatenated, a tuple on the left is extended, anything else makes a pair
ThenValue(l, r, left, right) ==
    IF IsUnit(l) THEN right
    ELSE IF IsUnit(r) THEN left
    ELSE IF left.k = "tuple" /\ right.k = "tuple" THEN TupV(left.e \o right.e)
    ELSE IF left.k = "tuple" THEN TupV(Append(left.e, right))
    ELSE TupV(<<left, right>>)

-----------------------------------------------------------------------------
(* Error reporting *)

Succ(st, val) == [ok |-> TRUE, val |-> val, st |-> st]
Fail(st) == [ok |-> FALSE, val |-> NoValue, st |-> st]
Running(r) == r.st.status = "run"

\* the default error_handler: throw parser_exception(parser.Name(), token_value, ...)
\* into parser_exception(error_part, parser_name, position, stream_name).  The
\* exception keeps string_views: error_part points into the parser, parser_name
\* into the temporary std::string that stream.Value() returned to
\* error_handle_recovery, which is destroyed while the exception unwinds.
Throw(p, path, st) ==
    [Log(st, Event("throw", p, path, st, FALSE, NoValue, st.glob))
        EXCEPT !.status = "exc",
               !.exc = [thrown |-> TRUE, by |-> path, error_part |-> p.name,
                        parser_name |-> Dangling(st, Value(st)),
                        position |-> Dangling(st, <<st.pos>>)]]

\* an error_handle_recovery that always calls the process-wide default handler
error_handle_recovery_DefaultOnly(p, path, st) ==
    IF p.no_error
    THEN Log(st, Event("recovery", p, path, st, FALSE, NoValue, "no_error"))
    ELSE LET st1 == Log(st, Event("recovery", p, path, st, FALSE, NoValue, "default"))
             st2 == Log(st1, Event("handler", p, path, st, FALSE, NoValue, "default"))
         IN  IF error_handler = "throw" THEN Throw(p, path, st2) ELSE st2

\* _abstract_parser::error_handle_recovery
error_handle_recovery(p, path, st) ==
    IF p.no_error
    THEN Log(st, Event("recovery", p, path, st, FALSE, NoValue, "no_error"))
    ELSE LET which == IF p.eh = "none" THEN "default" ELSE "custom"
             does == IF p.eh = "none" THEN error_handler ELSE p.eh
             st1 == Log(st, Event("recovery", p, path, st, FALSE, NoValue, which))
             st2 == Log(st1, Event("handler", p, path, st, FALSE, NoValue, which))
         IN  IF does = "throw" THEN Throw(p, path, st2) ELSE st2

-----------------------------------------------------------------------------
(* parse_impl of every node.  ParseImpl(p, path, st, state) is the call    *)
(* p.parse_impl(stream, global_state, state): path names the node in the    *)
(* tree, state names the Local State passed by reference ("null" for        *)
(* nullptr_t).  The result is [ok, val, st]; st.status tells whether the    *)
(* call returned ("run"), is unwinding with an exception ("exc") or never   *)
(* returns ("hang").                                                        *)

RECURSIVE ParseImpl(_, _, _, _)

\* parser_check / parser_check_with_func :: parse_impl
ParseCheck(p, path, st, state) ==
    IF ~PeekImpl(p, st) THEN Fail(error_handle_recovery(p, path, st))
    ELSE Succ(Get(st), Unit)

\* parser_single / parser_with_func :: parse_impl
ParseSingle(p, path, st, state) ==
    IF ~PeekImpl(p, st) THEN Fail(error_handle_recovery(p, path, st))
    ELSE Succ(Get(st), TokV(Peek(st, 0)))

\* parser_with_func::parse_impl
ParseWithFunc(p, path, st, state) ==
    IF ~PeekImpl(p, st) THEN Fail(error_handle_recovery(p, path, st))
    ELSE Succ(Get(st), TokV(Peek(st, 0)))

\* parser_str::parse_impl
ParseStr(p, path, st, state) ==
    IF \E i \in 0 .. Len(p.lit) - 1 : Peek(st, i) # p.lit[i + 1]
    THEN Fail(error_handle_recovery(p, path, st))
    ELSE Succ(Seek(st, Len(p.lit)), StrV(p.lit))

\* parser_buff_seq_check::parse_impl
ParseSeqCheck(p, path, st, state) ==
    IF ~PeekImpl(p, st) THEN Fail(error_handle_recovery(p, path, st))
    ELSE Succ(Seek(st, Len(p.lit)), Unit)

RECURSIVE UntilLoop(_, _, _)
UntilLoop(p, st, res) ==
    IF ~Eof(st, 0) /\ Peek(st, 0) # p.v
    THEN UntilLoop(p, Get(st), Append(res, TokV(Peek(st, 0))))
    ELSE Succ(st, SeqV(res))

\* a parser_until that collects without asking its peek_impl first
ParseUntil_Always(p, path, st, state) == UntilLoop(p, st, <<>>)

\* parser_until::parse_impl
ParseUntil(p, path, st, state) ==
    IF ~PeekImpl(p, st) THEN Fail(st) ELSE UntilLoop(p, st, <<>>)

\* a lookahead node that finds its answer by parsing its child
ParseLook_ByParsing(p, path, st, state) ==
    LET re == ParseImpl(p.c, path \o <<1>>, st, state)
    IN  IF ~Running(re) THEN re
        ELSE IF (p.t = "pred") = re.ok THEN Succ(re.st, Unit) ELSE Fail(re.st)

\* parser_not::parse_impl, parser_pred::parse_impl
ParseLook(p, path, st, state) ==
    IF PeekImpl(p, st) THEN Succ(st, Unit) ELSE Fail(st)

\* parser_ignore::parse_impl
ParseIgnore(p, path, st, state) ==
    LET re == ParseImpl(p.c, path \o <<1>>, st, state)
    IN  IF ~Running(re) THEN re
        ELSE IF re.ok THEN Succ(re.st, Unit) ELSE Fail(re.st)

\* a parser_then that rolls the cursor back to where it was entered when the right
\* child fails
ParseThen_RollBack(p, path, st, state) ==
    LET left_re == ParseImpl(p.l, path \o <<1>>, st, state)
    IN  IF ~Running(left_re) THEN left_re
        ELSE IF ~left_re.ok THEN Fail(error_handle_recovery(p, path, left_re.st))
        ELSE LET right_re == ParseImpl(p.r, path \o <<2>>, left_re.st, state)
             IN  IF ~Running(right_re) THEN right_re
                 ELSE IF ~right_re.ok
                 THEN Fail(error_handle_recovery(p, path, Restore(right_re.st, st.pos)))
                 ELSE Succ(right_re.st, ThenValue(p.l, p.r, left_re.val, right_re.val))

\* parser_then::parse_impl
ParseThen(p, path, st, state) ==
    LET left_re == ParseImpl(p.l, path \o <<1>>, st, state)
    IN  IF ~Running(left_re) THEN left_re
        ELSE IF ~left_re.ok THEN Fail(error_handle_recovery(p, path, left_re.st))
        ELSE LET right_re == ParseImpl(p.r, path \o <<2>>, left_re.st, state)
             IN  IF ~Running(right_re) THEN right_re
                 ELSE IF ~right_re.ok
                 THEN Fail(error_handle_recovery(p, path, right_re.st))
                 ELSE Succ(right_re.st, ThenValue(p.l, p.r, left_re.val, right_re.val))

\* a parser_or that retries the right child when the left child fails
ParseOr_Retry(p, path, st, state) ==
    IF ~PeekImpl(p, st) THEN Fail(error_handle_recovery(p, path, st))
    ELSE LET re == IF PeekImpl(p.l, st) THEN ParseImpl(p.l, path \o <<1>>, st, state)
                   ELSE Fail(st)
         IN  IF ~Running(re) THEN re
             ELSE IF re.ok THEN Succ(re.st, re.val)
             ELSE LET re2 == ParseImpl(p.r, path \o <<2>>, re.st, state)
                  IN  IF ~Running(re2) THEN re2
                      ELSE IF ~re2.ok THEN Fail(error_handle_recovery(p, path, re2.st))
                      ELSE Succ(re2.st, re2.val)

\* parser_or<l, r, false>::parse_impl
ParseOr(p, path, st, state) ==
    IF ~PeekImpl(p, st) THEN Fail(error_handle_recovery(p, path, st))
    ELSE IF PeekImpl(p.l, st)
    THEN LET re == ParseImpl(p.l, path \o <<1>>, st, state)
         IN  IF ~Running(re) THEN re
             ELSE IF ~re.ok THEN Fail(error_handle_recovery(p, path, re.st))
             ELSE Succ(re.st, re.val)
    ELSE LET re == ParseImpl(p.r, path \o <<2>>, st, state)
         IN  IF ~Running(re) THEN re
             ELSE IF ~re.ok THEN Fail(error_handle_recovery(p, path, re.st))
             ELSE Succ(re.st, re.val)

\* a backtracking parser_or that leaves the cursor where the second child failed
ParseOrBackTrackSecond_NoRestore(p, path, st, state, stream_state) ==
    IF PeekImpl(p.r, st)
    THEN LET re == ParseImpl(p.r, path \o <<2>>, st, state)
         IN  IF ~Running(re) THEN re
             ELSE IF ~re.ok THEN Fail(re.st)
             ELSE Succ(re.st, re.val)
    ELSE [ok |-> st.ub, val |-> Garbage,
          st |-> Log(st, Event("no_return", p, path, st, st.ub, Garbage, ""))]

\* parser_or<l, r, true>::parse_impl, the second child: control reaches the end of
\* the function without a return statement when the second child does not peek
ParseOrBackTrackSecond(p, path, st, state, stream_state) ==
    IF PeekImpl(p.r, st)
    THEN LET re == ParseImpl(p.r, path \o <<2>>, st, state)
         IN  IF ~Running(re) THEN re
             ELSE IF ~re.ok
             THEN Fail(Log(Restore(re.st, stream_state),
                           Event("restore", p, path, re.st, FALSE, NoValue, "second")))
             ELSE Succ(re.st, re.val)
    ELSE [ok |-> st.ub, val |-> Garbage,
          st |-> Log(st, Event("no_return", p, path, st, st.ub, Garbage, ""))]

\* parser_or<l, r, true>::parse_impl
ParseOrBackTrack(p, path, st, state) ==
    LET stream_state == Save(st)
        st0 == Log(st, Event("save", p, path, st, FALSE, NoValue, ""))
    IN  IF PeekImpl(p.l, st0)
        THEN LET re == ParseImpl(p.l, path \o <<1>>, st0, state)
             IN  IF ~Running(re) THEN re
                 ELSE IF ~re.ok
                 THEN ParseOrBackTrackSecond(p, path,
                          Log(Restore(re.st, stream_state),
                              Event("restore", p, path, re.st, FALSE, NoValue, "first")),
                          state, stream_state)
                 ELSE Succ(re.st, re.val)
        ELSE ParseOrBackTrackSecond(p, path, st0, state, stream_state)

\* what the loops of parser_many and parser_more return
ManyValue(p, results) == IF IsUnit(p.c) THEN Unit ELSE SeqV(results)

\* the while loop of parser_many::parse_impl and parser_more::parse_impl.  The code
\* is deterministic: an iteration that succeeds and leaves the cursor and both
\* states as they were is followed by the same iteration again, for ever.
\* a loop that fails as a whole when an iteration fails
RECURSIVE ManyLoop_Strict(_, _, _, _, _, _)
ManyLoop_Strict(p, path, st, state, results, n) ==
    IF ~Eof(st, 0) /\ PeekImpl(p.c, st)
    THEN LET re == ParseImpl(p.c, path \o <<1>>, st, state)
         IN  IF ~Running(re) THEN re
             ELSE IF ~re.ok THEN Fail(error_handle_recovery(p, path, re.st))
             ELSE IF re.st.pos = st.pos /\ re.st.glob = st.glob /\ re.st.local = st.local
             THEN Fail([Log(re.st, Event("hang", p, path, re.st, FALSE, NoValue, ""))
                           EXCEPT !.status = "hang"])
             ELSE IF n >= MaxIter THEN Fail([re.st EXCEPT !.status = "cut"])
             ELSE ManyLoop_Strict(p, path, re.st, state, Append(results, re.val), n + 1)
    ELSE Succ(st, ManyValue(p, results))

\* a loop that runs its body once
ManyLoop_Once(p, path, st, state, results, n) ==
    IF ~Eof(st, 0) /\ PeekImpl(p.c, st)
    THEN LET re == ParseImpl(p.c, path \o <<1>>, st, state)
         IN  IF ~Running(re) THEN re
             ELSE IF ~re.ok
             THEN Succ(error_handle_recovery(p, path, re.st), ManyValue(p, results))
             ELSE Succ(re.st, ManyValue(p, Append(results, re.val)))
    ELSE Succ(st, ManyValue(p, results))

RECURSIVE ManyLoop(_, _, _, _, _, _)
ManyLoop(p, path, st, state, results, n) ==
    IF ~Eof(st, 0) /\ PeekImpl(p.c, st)
    THEN LET re == ParseImpl(p.c, path \o <<1>>, st, state)
         IN  IF ~Running(re) THEN re
             ELSE IF ~re.ok
             THEN Succ(error_handle_recovery(p, path, re.st), ManyValue(p, results))
             ELSE IF re.st.pos = st.pos /\ re.st.glob = st.glob /\ re.st.local = st.local
             THEN Fail([Log(re.st, Event("hang", p, path, re.st, FALSE, NoValue, ""))
                           EXCEPT !.status = "hang"])
             ELSE IF n >= MaxIter THEN Fail([re.st EXCEPT !.status = "cut"])
             ELSE ManyLoop(p, path, re.st, state, Append(results, re.val), n + 1)
    ELSE Succ(st, ManyValue(p, results))

\* parser_many::parse_impl
ParseMany(p, path, st, state) == ManyLoop(p, path, st, state, <<>>, 0)

\* parser_more::parse_impl
ParseMore(p, path, st, state) ==
    LET first_result == ParseImpl(p.c, path \o <<1>>, st, state)
    IN  IF ~Running(first_result) THEN first_result
        ELSE IF ~first_result.ok
        THEN Fail(error_handle_recovery(p, path, first_result.st))
        ELSE ManyLoop(p, path, first_result.st, state, <<first_result.val>>, 1)

\* an optional that fails when its child does not peek
ParseOptional_Required(p, path, st, state) ==
    IF PeekImpl(p.c, st)
    THEN LET re == ParseImpl(p.c, path \o <<1>>, st, state)
         IN  IF ~Running(re) THEN re
             ELSE IF ~re.ok THEN Fail(error_handle_recovery(p, path, re.st))
             ELSE Succ(re.st, OptV(TRUE, re.val))
    ELSE Fail(error_handle_recovery(p, path, st))

\* parser_optional::parse_impl
ParseOptional(p, path, st, state) ==
    IF PeekImpl(p.c, st)
    THEN LET re == ParseImpl(p.c, path \o <<1>>, st, state)
         IN  IF ~Running(re) THEN re
             ELSE IF ~re.ok THEN Fail(error_handle_recovery(p, path, re.st))
             ELSE Succ(re.st, OptV(TRUE, re.val))
    ELSE Succ(st, OptV(FALSE, NoValue))

\* callbacks that each see a Local State of their own
ApplyAction_OwnState(f, val, st, state) ==
    CASE f = "count" -> [st EXCEPT !.glob = @ + 1]
      [] f = "nop" -> st

\* the callbacks of the grammars: "count" is the action of the StateParser test,
\* [](auto&&, auto& g_state, auto& state) { state++; g_state += state; }
ApplyAction(f, val, st, state) ==
    CASE f = "count" ->
            LET s1 == st.local[state] + 1
            IN  [st EXCEPT !.local[state] = s1, !.glob = @ + s1]
      [] f = "nop" -> st

\* parser_action::parse_impl
ParseAction(p, path, st, state) ==
    LET source_result == ParseImpl(p.c, path \o <<1>>, st, state)
    IN  IF ~Running(source_result) THEN source_result
        ELSE IF ~source_result.ok
        THEN Fail(error_handle_recovery(p, path, source_result.st))
        ELSE LET st1 == ApplyAction(p.f, source_result.val, source_result.st, state)
             IN  Succ(Log(st1, Event("action", p, path, st1, TRUE,
                                     IntV(IF state = "null" THEN 0 ELSE st1.local[state]),
                                     state)),
                      source_result.val)

\* the mappers of the grammars: "len" is [](auto&& t) { return t.size(); }
ApplyMap(f, val) ==
    CASE f = "len" -> IntV(Len(val.e))
      [] f = "same" -> val
      \* [](auto&& t) { return t - '0'; }
      [] f = "digit" -> IntV(DigitValue(val.v))
      \* [](auto&& t) { return std::get<0>(t) + std::get<1>(t); }
      [] f = "sum" -> IntV(val.e[1].i + val.e[2].i)

\* parser_map::parse_impl
ParseMap(p, path, st, state) ==
    LET source_result == ParseImpl(p.c, path \o <<1>>, st, state)
    IN  IF ~Running(source_result) THEN source_result
        ELSE IF ~source_result.ok
        THEN Fail(error_handle_recovery(p, path, source_result.st))
        ELSE Succ(source_result.st, ApplyMap(p.f, source_result.val))

\* the predicates of the grammars: "is_a" is [](auto&& t) { return t == 'a'; }
ApplyWhere(f, val) ==
    CASE f = "is_a" -> val = TokV("a")
      [] f = "any" -> TRUE

\* parser_where::parse_impl
ParseWhere(p, path, st, state) ==
    LET re == ParseImpl(p.c, path \o <<1>>, st, state)
    IN  IF ~Running(re) THEN re
        ELSE IF ~re.ok \/ ~ApplyWhere(p.f, re.val)
        THEN Fail(error_handle_recovery(p, path, re.st))
        ELSE Succ(re.st, re.val)

\* parser_lazy::parse_impl: factory().parse_impl(stream, global_state, state)
ParseLazy(p, path, st, state) ==
    LET re == ParseImpl(Real(p.real), path \o <<1>>, st, state)
    IN  IF ~Running(re) THEN re
        ELSE IF re.ok THEN Succ(re.st, re.val) ELSE Fail(re.st)

\* a LazyTest that forwards without asking its peek_impl first
ParseLazyTest_Unguarded(p, path, st, state) ==
    ParseImpl(lazy_parser, path \o <<1>>, st, state)

\* LazyTest::parse_impl: lazy_parser.Parse(stream, g_ctx, ctx) when a digit follows,
\* else 0
ParseLazyTest(p, path, st, state) ==
    IF PeekImpl(p, st) THEN ParseImpl(lazy_parser, path \o <<1>>, st, state)
    ELSE Succ(st, IntV(0))

\* state_parser::parse_impl: parser.parse_impl(stream, global_state, factory())
ParseState(p, path, st, state) ==
    ParseImpl(p.c, path \o <<1>>,
              Log(st, Event("state", p, path, st, TRUE, IntV(st.local[p.ty]), p.ty)),
              p.ty)

\* the on_error callbacks: "nop" is TryCatch's default [](auto&&, auto&&) {},
\* "note" records the error in the Global State (as handler.error(ex.what()) does)
ApplyOnError(f, ex, st) ==
    CASE f = "nop" -> st
      [] f = "note" -> [st EXCEPT !.glob = @ + 1]

\* a try_catch_parser that also runs recovery when the parser returns empty
ParseTryCatch_Always(p, path, st, state) ==
    IF ~PeekImpl(p.c, st) THEN ParseImpl(p.recovery, path \o <<2>>, st, state)
    ELSE LET re == ParseImpl(p.c, path \o <<1>>, st, state)
         IN  IF re.st.status = "exc"
             THEN LET ex == re.st.exc
                      st1 == Log([re.st EXCEPT !.status = "run", !.exc = NoExc],
                                 Event("catch", p, path, re.st, FALSE, NoValue, ""))
                      st2 == ApplyOnError(p.on_error, ex, st1)
                      st3 == Log(st2, Event("on_error", p, path, st2, FALSE,
                                            IntV(st1.glob), ex))
                  IN  ParseImpl(p.recovery, path \o <<2>>, st3, state)
             ELSE IF Running(re) /\ ~re.ok
             THEN ParseImpl(p.recovery, path \o <<2>>, re.st, state)
             ELSE re

\* a try_catch_parser that runs recovery without calling on_error
ParseTryCatch_Silent(p, path, st, state) ==
    IF ~PeekImpl(p.c, st) THEN ParseImpl(p.recovery, path \o <<2>>, st, state)
    ELSE LET re == ParseImpl(p.c, path \o <<1>>, st, state)
         IN  IF re.st.status = "exc"
             THEN ParseImpl(p.recovery, path \o <<2>>,
                            Log([re.st EXCEPT !.status = "run", !.exc = NoExc],
                                Event("catch", p, path, re.st, FALSE, NoValue, "")),
                            state)
             ELSE re

\* a try_catch_parser that puts the cursor back where it was entered before recovering
ParseTryCatch_Rewind(p, path, st, state) ==
    IF ~PeekImpl(p.c, st) THEN ParseImpl(p.recovery, path \o <<2>>, st, state)
    ELSE LET re == ParseImpl(p.c, path \o <<1>>, st, state)
         IN  IF re.st.status = "exc"
             THEN LET ex == re.st.exc
                      st1 == Log([re.st EXCEPT !.status = "run", !.exc = NoExc],
                                 Event("catch", p, path, re.st, FALSE, NoValue, ""))
                      st2 == ApplyOnError(p.on_error, ex, st1)
                      st3 == Log(st2, Event("on_error", p, path, st2, FALSE,
                                            IntV(st1.glob), ex))
                  IN  ParseImpl(p.recovery, path \o <<2>>, Restore(st3, Save(st)), state)
             ELSE re

\* try_catch_parser::parse_impl
ParseTryCatch(p, path, st, state) ==
    IF ~PeekImpl(p.c, st) THEN ParseImpl(p.recovery, path \o <<2>>, st, state)
    ELSE LET re == ParseImpl(p.c, path \o <<1>>, st, state)
         IN  IF re.st.status = "exc"
             THEN LET ex == re.st.exc
                      st1 == Log([re.st EXCEPT !.status = "run", !.exc = NoExc],
                                 Event("catch", p, path, re.st, FALSE, NoValue, ""))
                      st2 == ApplyOnError(p.on_error, ex, st1)
                      st3 == Log(st2, Event("on_error", p, path, st2, FALSE,
                                            IntV(st1.glob), ex))
                  IN  ParseImpl(p.recovery, path \o <<2>>, st3, state)
             ELSE re

RECURSIVE SyncLoop(_, _)
SyncLoop(p, st) ==
    IF Peek(st, 0) # p.v /\ ~Eof(st, 0) THEN SyncLoop(p, Seek(st, 1)) ELSE st

\* a sync_point_recovery_parser that always steps over the sync token
ParseSync_After(p, path, st, state) ==
    Succ(Seek(SyncLoop(p, st), 1), Unit)

\* sync_point_recovery_parser::parse_impl
ParseSync(p, path, st, state) ==
    LET st1 == SyncLoop(p, st)
    IN  Succ(IF p.is_after_this THEN Seek(st1, 1) ELSE st1, Unit)

\* the body of a node's parse_impl
ParseBody(p, path, st, state) ==
    CASE p.t = "check" -> ParseCheck(p, path, st, state)
      [] p.t = "single" -> ParseSingle(p, path, st, state)
      [] p.t = "str" -> ParseStr(p, path, st, state)
      [] p.t = "seq_check" -> ParseSeqCheck(p, path, st, state)
      [] p.t = "until" -> ParseUntil(p, path, st, state)
      [] p.t \in {"not", "pred"} -> ParseLook(p, path, st, state)
      [] p.t = "ignore" -> ParseIgnore(p, path, st, state)
      [] p.t = "then" -> ParseThen(p, path, st, state)
      [] p.t = "or" -> ParseOr(p, path, st, state)
      [] p.t = "or_bt" -> ParseOrBackTrack(p, path, st, state)
      [] p.t = "many" -> ParseMany(p, path, st, state)
      [] p.t = "more" -> ParseMore(p, path, st, state)
      [] p.t = "optional" -> ParseOptional(p, path, st, state)
      [] p.t = "action" -> ParseAction(p, path, st, state)
      [] p.t = "map" -> ParseMap(p, path, st, state)
      [] p.t = "where" -> ParseWhere(p, path, st, state)
      [] p.t = "lazy" -> ParseLazy(p, path, st, state)
      [] p.t = "with_func" -> ParseWithFunc(p, path, st, state)
      [] p.t = "lazy_test" -> ParseLazyTest(p, path, st, state)
      [] p.t = "state" -> ParseState(p, path, st, state)
      [] p.t = "try_catch" -> ParseTryCatch(p, path, st, state)
      [] p.t = "sync" -> ParseSync(p, path, st, state)

\* one call of parse_impl, with its entry and its return in the trace
ParseImpl(p, path, st, state) ==
    LET re == ParseBody(p, path, Log(st, Event("enter", p, path, st, FALSE, NoValue, "")),
                        state)
    IN  IF Running(re)
        THEN [re EXCEPT !.st = Log(re.st, Event("exit", p, path, re.st, re.ok,
                                               IF re.ok THEN re.val ELSE NoValue, ""))]
        ELSE re

-----------------------------------------------------------------------------
(* The parser trees of the model *)

\* the types state_parser<Parser, State> that occur, each with its own static newState
StateTypes == {"S1", "S2"}

A == Check("a")
B == Check("b")
C == Check("c")
AB == Then(A, B)
AC == Then(A, C)
Parsers == {
    \* the shape of the BackTrack test: literals as alternatives
    Or_BackTrack(Str(<<"a", "b">>), Str(<<"a", "c">>)),
    \* alternatives that are sequences
    Or_BackTrack(AB, AC),
    Or_BackTrack(Then(SingleValue("a"), Then(B, C)), Then(SingleValue("a"), Then(C, B))),
    Or_BackTrack(AB, B),
    Then(Or_BackTrack(AB, AC), C),
    \* repetition
    Many(A),
    Many(AB),
    Many(Optional(B)),
    Many(Not(B)),
    Then(Many(SingleValue("a")), B),
    \* state scoping
    Many(WithState("S1", CountA)),
    WithState("S1", Many(CountA)),
    \* the StateParser test, with a one-token literal
    WithState("S1", Many(Action(SeqCheck(<<"a">>), "count"))),
    Then(WithState("S1", CountA), WithState("S1", CountA)),
    Then(WithState("S1", CountA), WithState("S2", CountA)),
    \* sequence and ordered choice
    Then(SingleValue("a"), B),
    Then(A, Then(B, C)),
    Then(AB, C),
    Or(SingleValue("a"), SingleValue("b")),
    Or(AB, Then(A, C)),
    Or(Optional(A), B),
    \* recovery
    TryCatch(A, Sync("c", FALSE)),
    TryCatch(Str(<<"a", "b">>), Str(<<"a", "c">>)),
    TryCatchOn(Then(A, Then(B, A)), Sync("c", FALSE), "note"),
    TryCatch(NoError(Str(<<"a", "b">>)), Sync("c", FALSE)),
    TryCatch(OnError(AB, "quiet"), Sync("c", FALSE)),
    Sync("c", FALSE),
    Then(A, Sync("b", FALSE)),
    \* recovery that steps over the sync token
    Sync("c", TRUE),
    TryCatch(A, Sync("c", TRUE)),
    Many(TryCatchOn(AB, Then(Sync("c", FALSE), C), "note")),
    Many(TryCatch(AB, Sync("c", TRUE))),
    \* lookahead
    Not(B),
    Then(Pred(A), SingleValue("a")),
    Then(A, Not(B)),
    \* the primitives on their own
    A,
    SingleValue("a"),
    Str(<<"a", "b">>),
    SeqCheck(<<"a", "b">>),
    \* a literal whose last compared token is the default token: the terminator of
    \* a char16_t literal (real_size = size), or a 0 in a literal of int tokens
    Str(<<"a", NUL>>),
    Then(Until("c"), C),
    \* the shape of the UntilParser test: opener, text, closer
    Then(A, Then(Until("b"), B)),
    \* the two groupings of a sequence of three
    Then(Then(SingleValue("a"), SingleValue("b")), SingleValue("c")),
    Then(SingleValue("a"), Then(SingleValue("b"), SingleValue("c"))),
    \* repetition with a child that can fail after it peeked
    Many(Str(<<"a", "b">>)),
    More(Str(<<"a", "b">>)),
    More(SingleValue("a")),
    Or_BackTrack(Many(Str(<<"a", "b">>)), C),
    Optional(Str(<<"a", "b">>)),
    Then(Optional(SingleValue("a")), B),
    \* conversion and filtering
    Map(Many(SingleValue("a")), "len"),
    Where(Or(SingleValue("a"), SingleValue("b")), "is_a"),
    \* recursion and state behind Lazy
    Lazy("counted"),
    Lazy("digits")
}

\* whether a tree has callbacks that take the Global State by reference, and so
\* compiles only with an entry point that passes one
RECURSIVE NeedsGlobal(_)
NeedsGlobal(p) ==
    CASE p.t = "action" -> p.f = "count" \/ NeedsGlobal(p.c)
      [] p.t = "try_catch" ->
            p.on_error = "note" \/ NeedsGlobal(p.c) \/ NeedsGlobal(p.recovery)
      [] p.t \in {"then", "or", "or_bt"} -> NeedsGlobal(p.l) \/ NeedsGlobal(p.r)
      [] p.t \in {"many", "more", "optional", "not", "pred", "ignore", "state", "map",
                  "where"} ->
            NeedsGlobal(p.c)
      [] p.t = "lazy" -> p.real = "counted"
      [] OTHER -> FALSE

\* whether a callback that takes the Local State is reached without a WithState
\* above it, so that the tree compiles only with the three-argument Parse
RECURSIVE NeedsLocal(_)
NeedsLocal(p) ==
    CASE p.t = "action" -> p.f = "count" \/ NeedsLocal(p.c)
      [] p.t = "try_catch" -> NeedsLocal(p.c) \/ NeedsLocal(p.recovery)
      [] p.t \in {"then", "or", "or_bt"} -> NeedsLocal(p.l) \/ NeedsLocal(p.r)
      [] p.t \in {"many", "more", "optional", "not", "pred", "ignore", "map", "where"} ->
            NeedsLocal(p.c)
      [] OTHER -> FALSE

\* the reset_impl chain started by base_parser::Reset: state_parser::reset_impl
\* assigns State() to the static, the leaves and parser_lazy do nothing
RECURSIVE ResetImpl(_, _)
ResetImpl(p, statics) ==
    CASE p.t \in {"then", "or", "or_bt"} -> ResetImpl(p.r, ResetImpl(p.l, statics))
      [] p.t \in {"many", "more", "optional", "not", "pred", "ignore", "map", "action",
                  "where"} -> ResetImpl(p.c, statics)
      [] p.t = "state" -> [ResetImpl(p.c, statics) EXCEPT ![p.ty] = 0]
      [] p.t = "try_catch" -> ResetImpl(p.recovery, ResetImpl(p.c, statics))
      [] OTHER -> statics

-----------------------------------------------------------------------------
(* The diagnostic name of a node: char parser_name[20] in _abstract_parser,   *)
(* written by Name(s) and by the constructors of the nodes built from a       *)
(* char or a char literal.  parser_name is the buffer followed by the bytes   *)
(* of the object that come after it, so that a write past the buffer shows.   *)

\* char parser_name[20]
NameSize == 20
\* longest name or literal (with its terminator), in chars
MaxName == 22

\* a byte after the buffer that no write has touched
Other == "other"

\* char parser_name[20]{} of a node just constructed, and what follows it
FreshName == [i \in 1 .. MaxName |-> IF i <= NameSize THEN NUL ELSE Other]

\* the names: up to MaxName times the same char
Chars == {"a", "b"}
Names == {[i \in 1 .. n |-> c] : n \in 0 .. MaxName, c \in Chars}

\* the char literals "...", without the terminator that the array also holds
CharLiterals == {lit \in Names : Len(lit) < MaxName}

\* std::copy_n(first, count, this->parser_name)
copy_n(first, name) ==
    [i \in 1 .. Len(name) |-> IF i <= Len(first) THEN first[i] ELSE name[i]]

NameUnchanged ==
    UNCHANGED <<source, position, error_handler, newState, global_state,
                user_state, result, exception, trace, pc, file_stream, returned>>

\* base_parser::Name(name) on the node
SetName ==
    /\ calls < MaxCalls
    /\ \E name \in Names : /\ parser_name' = copy_n(name, parser_name)
                           /\ parser' = Name(parser, name)
    /\ calls' = calls + 1
    /\ NameUnchanged

\* parser_check(char): a new node, parser_name[0] = _cmp_value
ConstructCheck ==
    /\ calls < MaxCalls
    /\ \E _cmp_value \in Chars : /\ parser_name' = [FreshName EXCEPT ![1] = _cmp_value]
                                 /\ parser' = Check(_cmp_value)
    /\ calls' = calls + 1
    /\ NameUnchanged

\* parser_str(const char (&)[size]): a new node; size counts the terminator
ConstructStr ==
    /\ calls < MaxCalls
    /\ \E _cmp_value \in CharLiterals :
          /\ parser_name' = copy_n(Append(_cmp_value, NUL), FreshName)
          /\ parser' = Str(_cmp_value)
    /\ calls' = calls + 1
    /\ NameUnchanged

\* parser_buff_seq_check(const char (&)[buff_size]): a new node
ConstructSeqCheck ==
    /\ calls < MaxCalls
    /\ \E input \in CharLiterals :
          /\ parser_name' = copy_n(Append(input, NUL), FreshName)
          /\ parser' = SeqCheck(input)
    /\ calls' = calls + 1
    /\ NameUnchanged

\* parser_buff_seq(const char (&)[buff_size], constructor): a new node
ConstructSeqValue ==
    /\ calls < MaxCalls
    /\ \E input \in CharLiterals :
          /\ parser_name' = copy_n(Append(input, NUL), FreshName)
          /\ parser' = SeqValue(input)
    /\ calls' = calls + 1
    /\ NameUnchanged

-----------------------------------------------------------------------------
(* file_stream: a std::ifstream read in chunks into a deque.  The bytes of the  *)
(* file are source; read is how far the ifstream has been read, eof its eofbit. *)

\* chunk_size, 4096 in the code
ChunkSize == 2
\* longest file
MaxFileLen == 5
\* largest lookahead and largest Seek length
MaxLook == 2

\* the files: the first bytes of a b c d e, so that every byte tells its offset
Files == {SubSeq(<<"a", "b", "c", "d", "e", "f", "g">>, 1, n) : n \in 0 .. MaxFileLen}

\* a file_stream after its constructor
OpenFile == [read |-> 0, eof |-> FALSE, buffer |-> <<>>, position |-> 0, mark_pos |-> 0]

\* no file_stream in use
NoFile == [read |-> 0, eof |-> TRUE, buffer |-> <<>>, position |-> 0, mark_pos |-> 0]

NoCall == [op |-> "none", file |-> NUL, memory |-> NUL]

\* file.read(temp.data(), chunk_size) and the push_back loop: fewer bytes than asked
\* for set eofbit
ReadChunk(fs) ==
    LET n == Len(source) - fs.read
        actually_read == IF n < ChunkSize THEN n ELSE ChunkSize
    IN  [fs EXCEPT !.buffer = @ \o SubSeq(source, fs.read + 1, fs.read + actually_read),
                   !.read = @ + actually_read,
                   !.eof = @ \/ actually_read < ChunkSize]

\* file_stream::get_char: [c, fs], c = "EOF" for the int EOF
get_char(fs) ==
    LET fs1 == IF fs.position >= fs.mark_pos + Len(fs.buffer) THEN ReadChunk(fs) ELSE fs
    IN  IF fs1.position < fs1.mark_pos + Len(fs1.buffer)
        THEN [c |-> fs1.buffer[fs1.position - fs1.mark_pos + 1],
              fs |-> [fs1 EXCEPT !.position = @ + 1]]
        ELSE [c |-> "EOF", fs |-> fs1]

\* file_stream::fill_buffer
RECURSIVE fill_buffer(_, _)
fill_buffer(fs, required) ==
    IF Len(fs.buffer) < required + (fs.position - fs.mark_pos) /\ ~fs.eof
    THEN fill_buffer(ReadChunk(fs), required)
    ELSE fs

\* file_stream::get_impl: mark_pos = position++ after get_char has advanced position
get_impl(fs) ==
    IF fs.position < fs.mark_pos + Len(fs.buffer)
    THEN [c |-> fs.buffer[fs.position - fs.mark_pos + 1],
          fs |-> [fs EXCEPT !.position = @ + 1]]
    ELSE LET g == get_char(fs)
         IN  IF g.c # "EOF"
             THEN [c |-> g.c,
                   fs |-> [g.fs EXCEPT !.mark_pos = g.fs.position,
                                       !.position = g.fs.position + 1]]
             ELSE g

\* file_stream::peek_impl
peek_impl(fs, lookahead) ==
    LET fs1 == fill_buffer(fs, lookahead + 1)
    IN  IF fs1.position + lookahead >= fs1.mark_pos + Len(fs1.buffer)
        THEN [c |-> "EOF", fs |-> fs1]
        ELSE [c |-> fs1.buffer[fs1.position + lookahead - fs1.mark_pos + 1], fs |-> fs1]

\* file_stream::eof_impl
eof_impl(fs, lookahead) ==
    LET fs1 == fill_buffer(fs, lookahead + 1)
    IN  [c |-> fs1.position + lookahead >= fs1.mark_pos + Len(fs1.buffer), fs |-> fs1]

\* file_stream::seek_impl
seek_impl(fs, length) == [fs EXCEPT !.position = @ + length]

\* the in-memory stream over the same bytes, as the record the stream operators take
Memory == [pos |-> position]

\* the variables of the parser side, which the stream calls leave alone
parser_vars == <<source, parser, error_handler, newState, global_state, user_state,
                 result, exception, trace, pc, calls, parser_name>>

\* Get() on both streams
FileGet ==
    /\ LET g == get_impl(file_stream)
       IN  /\ file_stream' = g.fs
           /\ returned' = [op |-> "Get", file |-> g.c, memory |-> Peek(Memory, 0)]
    /\ position' = Get(Memory).pos
    /\ UNCHANGED parser_vars

\* Peek(k) on both streams
FilePeek ==
    \E k \in 0 .. MaxLook :
        /\ LET g == peek_impl(file_stream, k)
           IN  /\ file_stream' = g.fs
               /\ returned' = [op |-> "Peek", file |-> g.c, memory |-> Peek(Memory, k)]
        /\ UNCHANGED position
        /\ UNCHANGED parser_vars

\* Eof(k) on both streams
FileEof ==
    \E k \in 0 .. MaxLook :
        /\ LET g == eof_impl(file_stream, k)
           IN  /\ file_stream' = g.fs
               /\ returned' = [op |-> "Eof", file |-> g.c, memory |-> Eof(Memory, k)]
        /\ UNCHANGED position
        /\ UNCHANGED parser_vars

\* Seek(n) on both streams, within the data
FileSeek ==
    \E n \in 1 .. MaxLook :
        /\ position + n <= Len(source)
        /\ file_stream' = seek_impl(file_stream, n)
        /\ position' = Seek(Memory, n).pos
        /\ returned' = [op |-> "Seek", file |-> NUL, memory |-> NUL]
        /\ UNCHANGED parser_vars

\* base_token_stream::Value() on a file_stream: value_impl is
\* std::string(1, peek_impl(0))
FileStreamValue(fs) ==
    LET e == eof_impl(fs, 0)
    IN  IF e.c THEN [c |-> <<"E", "O", "F">>, fs |-> e.fs]
        ELSE [c |-> <<peek_impl(e.fs, 0).c>>, fs |-> peek_impl(e.fs, 0).fs]

\* base_token_stream::Value() on a mmap_file_stream over the same bytes, its cursor
\* at pos: value_impl is "" at position 0, else std::string(1, mapped_data[position - 1])
MmapStreamValue(pos) ==
    IF pos >= Len(source) THEN <<"E", "O", "F">>
    ELSE IF pos = 0 \/ pos > Len(source) THEN <<>>
    ELSE <<source[pos]>>

\* Value() on the file_stream, on the in-memory stream and on a mmap_file_stream
\* with its cursor where the in-memory stream has it
FileValue ==
    /\ LET g == FileStreamValue(file_stream)
       IN  /\ file_stream' = g.fs
           /\ returned' = [op |-> "Value", file |-> g.c, memory |-> Value(Memory),
                           mmap |-> MmapStreamValue(position)]
    /\ UNCHANGED position
    /\ UNCHANGED parser_vars

InitFile ==
    /\ source \in Files
    /\ position = 0
    /\ parser = A
    /\ error_handler = "throw"
    /\ newState = [ty \in StateTypes |-> 0]
    /\ global_state = 0
    /\ user_state = 0
    /\ result = [ok |-> FALSE, val |-> NoValue]
    /\ exception = NoExc
    /\ trace = <<>>
    /\ pc = "ready"
    /\ calls = 0
    /\ file_stream = OpenFile
    /\ returned = NoCall
    /\ parser_name = FreshName

NextFile == FileGet \/ FilePeek \/ FileEof \/ FileSeek \/ FileValue

SpecFile == InitFile /\ [][NextFile]_vars

\* a node that is named and constructed again
InitName ==
    /\ source = <<>>
    /\ position = 0
    /\ parser = A
    /\ error_handler = "throw"
    /\ newState = [ty \in StateTypes |-> 0]
    /\ global_state = 0
    /\ user_state = 0
    /\ result = [ok |-> FALSE, val |-> NoValue]
    /\ exception = NoExc
    /\ trace = <<>>
    /\ pc = "ready"
    /\ calls = 0
    /\ file_stream = NoFile
    /\ returned = NoCall
    /\ parser_name = FreshName

NextName == SetName \/ ConstructCheck \/ ConstructStr \/ ConstructSeqCheck \/ ConstructSeqValue

SpecName == InitName /\ [][NextName]_vars

-----------------------------------------------------------------------------
(* The caller's operations *)

Init ==
    /\ source \in Sources
    /\ position = 0
    /\ parser \in Parsers
    /\ error_handler = "throw"
    /\ newState = [ty \in StateTypes |-> 0]
    /\ global_state = 0
    /\ user_state = 0
    /\ result = [ok |-> FALSE, val |-> NoValue]
    /\ exception = NoExc
    /\ trace = <<>>
    /\ pc = "ready"
    /\ calls = 0
    /\ file_stream = NoFile
    /\ returned = NoCall
    /\ parser_name = FreshName

CanCall == pc \in {"ready", "returned", "threw", "peeked"} /\ calls < MaxCalls

\* the state a Parse call starts from
Start(statics, ub) ==
    [pos |-> position, glob |-> global_state,
     local |-> statics @@ [s \in {"user"} |-> user_state],
     trace |-> <<>>, status |-> "run", exc |-> NoExc, ub |-> ub]

\* what a Parse call leaves behind
Finish(re, with_global) ==
    /\ position' = re.st.pos
    /\ newState' = [ty \in StateTypes |-> re.st.local[ty]]
    /\ user_state' = re.st.local["user"]
    /\ global_state' = IF with_global THEN re.st.glob ELSE global_state
    /\ trace' = re.st.trace
    /\ exception' = re.st.exc
    /\ result' = IF Running(re) THEN [ok |-> re.ok, val |-> IF re.ok THEN re.val ELSE NoValue]
                 ELSE [ok |-> FALSE, val |-> NoValue]
    /\ pc' = CASE re.st.status = "run" -> "returned"
               [] re.st.status = "exc" -> "threw"
               [] OTHER -> "hung"
    /\ calls' = calls + 1
    /\ UNCHANGED <<source, parser, error_handler, file_stream, returned, parser_name>>

\* base_parser::Parse(stream)
Parse ==
    /\ CanCall
    /\ ~NeedsGlobal(parser) /\ ~NeedsLocal(parser)
    /\ \E ub \in BOOLEAN :
          Finish(ParseImpl(parser, <<>>, Start(ResetImpl(parser, newState), ub), "null"),
                 FALSE)

\* base_parser::Parse(stream, global_state)
ParseGlobal ==
    /\ CanCall
    /\ ~NeedsLocal(parser)
    /\ \E ub \in BOOLEAN :
          Finish(ParseImpl(parser, <<>>, Start(ResetImpl(parser, newState), ub), "null"),
                 TRUE)

\* base_parser::Parse(stream, global_state, state)
ParseGlobalState ==
    /\ CanCall
    /\ \E ub \in BOOLEAN :
          Finish(ParseImpl(parser, <<>>, Start(newState, ub), "user"), TRUE)

\* a Peek that finds its answer by parsing
ParserPeek_ByParsing ==
    /\ CanCall
    /\ LET re == ParseImpl(parser, <<>>, Start(newState, FALSE), "user")
       IN  /\ result' = [ok |-> Running(re) /\ re.ok, val |-> NoValue]
           /\ trace' = re.st.trace
           /\ position' = re.st.pos
    /\ exception' = NoExc
    /\ pc' = "peeked"
    /\ calls' = calls + 1
    /\ UNCHANGED <<source, parser, error_handler, newState, global_state, user_state,
                   file_stream, returned, parser_name>>

\* base_parser::Peek(stream): peek_impl only reads the stream; no parse_impl is
\* entered, so the call leaves an empty trace
ParserPeek ==
    /\ CanCall
    /\ result' = [ok |-> PeekImpl(parser, Start(newState, FALSE)), val |-> NoValue]
    /\ trace' = <<>>
    /\ exception' = NoExc
    /\ pc' = "peeked"
    /\ calls' = calls + 1
    /\ UNCHANGED <<source, position, parser, error_handler, newState, global_state,
                   user_state, file_stream, returned, parser_name>>


\* parser_error_handler::DefaultOnError with a handler that returns
DefaultOnError ==
    /\ pc = "ready" /\ calls = 0
    /\ error_handler = "throw"
    /\ error_handler' = "quiet"
    /\ UNCHANGED <<source, position, parser, newState, global_state, user_state, result,
                   exception, trace, pc, calls, file_stream, returned, parser_name>>

\* the caller makes a new stream over the same tokens and a new Global State
NewStream ==
    /\ pc \in {"returned", "threw", "peeked"} /\ calls < MaxCalls
    /\ position # 0 \/ global_state # 0 \/ user_state # 0
    /\ position' = 0
    /\ global_state' = 0
    /\ user_state' = 0
    /\ UNCHANGED <<source, parser, error_handler, newState, result, exception, trace, pc,
                   calls, file_stream, returned, parser_name>>

Next == Parse \/ ParseGlobal \/ ParseGlobalState \/ ParserPeek \/ DefaultOnError \/ NewStream

Spec == Init /\ [][Next]_vars

\* the LazyParser test: lazy_parser over strings of digits and other characters
InitLazy ==
    /\ source \in DigitSources
    /\ position = 0
    /\ parser = lazy_parser
    /\ error_handler = "throw"
    /\ newState = [ty \in StateTypes |-> 0]
    /\ global_state = 0
    /\ user_state = 0
    /\ result = [ok |-> FALSE, val |-> NoValue]
    /\ exception = NoExc
    /\ trace = <<>>
    /\ pc = "ready"
    /\ calls = 0
    /\ file_stream = NoFile
    /\ returned = NoCall
    /\ parser_name = FreshName

SpecLazy == InitLazy /\ [][Next]_vars

-----------------------------------------------------------------------------
(* Reading the trace of the last Parse call *)

Idx == 1 .. Len(trace)

IsPrefix(q, path) == Len(q) <= Len(path) /\ SubSeq(path, 1, Len(q)) = q

Min(S) == CHOOSE x \in S : \A y \in S : x <= y

\* the call of node t that starts at event i
Entered(i, t) == trace[i].e = "enter" /\ trace[i].t = t

\* the event that ends the call entered at i: its own exit, or the first event of a
\* node that is not below it (the call was left by an exception); past the end of
\* the trace when there is neither
End(i) ==
    LET S == {k \in Idx : /\ k > i
                          /\ \/ ~IsPrefix(trace[i].path, trace[k].path)
                             \/ trace[k].e = "exit" /\ trace[k].path = trace[i].path}
    IN  IF S = {} THEN Len(trace) + 1 ELSE Min(S)

\* the call entered at i returned (a Result, empty or not)
Returned(i) ==
    End(i) <= Len(trace) /\ trace[End(i)].e = "exit" /\ trace[End(i)].path = trace[i].path

\* the call entered at i returned a value
Succeeded(i) == Returned(i) /\ trace[End(i)].ok

\* the call entered at i was left by a parser_exception
Raised(i) == ~Returned(i) /\ trace[End(i) - 1].e = "throw"

\* the calls of child n made by the call entered at i
ChildCalls(i, n) ==
    {k \in Idx : k > i /\ k < End(i) /\ trace[k].e = "enter"
                 /\ trace[k].path = trace[i].path \o <<n>>}

\* the events of kind e logged by the node itself during the call entered at i
Own(i, e) ==
    {k \in Idx : k > i /\ k < End(i) /\ trace[k].e = e /\ trace[k].path = trace[i].path}

\* child n of a node
Child(p, n) ==
    CASE p.t \in {"then", "or", "or_bt"} -> IF n = 1 THEN p.l ELSE p.r
      [] p.t = "try_catch" -> IF n = 1 THEN p.c ELSE p.recovery
      [] p.t = "lazy" -> Real(p.real)
      [] p.t = "lazy_test" -> lazy_parser
      [] OTHER -> p.c

RECURSIVE NodeAt(_, _)
NodeAt(p, path) == IF path = <<>> THEN p ELSE NodeAt(Child(p, Head(path)), Tail(path))

\* the node whose call starts at event i
NodeOf(i) == NodeAt(parser, trace[i].path)

\* the stream with its cursor at pos, for peek_impl
At(pos) == [pos |-> pos]

-----------------------------------------------------------------------------
(* Backtracking choice *)

\* C1: in Or_BackTrack(a, b), whenever the call of a does not succeed - the failing
\* node being a or any node below a - a's call returns (no exception leaves it), no
\* error handler is invoked during it, the node restores the cursor to the position
\* it saved on entry, and what comes next (b's call, if b peeks) starts there.
C1_FirstBranchFailureIsSilent ==
    \A i \in Idx : Entered(i, "or_bt") =>
        \A k \in ChildCalls(i, 1) : ~Succeeded(k) =>
            /\ Returned(k)
            /\ \A m \in k .. End(k) : trace[m].e \notin {"handler", "throw"}
            /\ trace[End(k) + 1].e = "restore"
            /\ trace[End(k) + 1].path = trace[i].path
            /\ trace[End(k) + 2].pos = trace[i].pos

\* a first branch that failed below its top node: the handler of the nested node ran
C1_NestedFailureReported ==
    \E i \in Idx : /\ Entered(i, "or_bt")
                   /\ \E k \in ChildCalls(i, 1), m \in Idx :
                         /\ m > k /\ m < End(k)
                         /\ trace[m].e = "handler"
                         /\ Len(trace[m].path) > Len(trace[k].path)

\* no child of the call entered at i returned a value
NoChildSucceeded(i) == \A n \in {1, 2} : \A k \in ChildCalls(i, n) : ~Succeeded(k)

\* C6: when a call of Or_BackTrack(a, b) returns and neither a nor b succeeded, the
\* cursor is where it was when the call was entered, however far a and b had moved
\* it before failing.
C6_BackTrackRestoresPosition ==
    \A i \in Idx : Entered(i, "or_bt") /\ Returned(i) /\ NoChildSucceeded(i) =>
        trace[End(i)].pos = trace[i].pos

\* both branches were tried, both consumed tokens, both failed
C6_BothBranchesConsumedAndFailed ==
    \E i \in Idx :
        /\ Entered(i, "or_bt") /\ Returned(i) /\ ~trace[End(i)].ok
        /\ \A n \in {1, 2} : \E k \in ChildCalls(i, n) :
              Returned(k) /\ ~trace[End(k)].ok /\ trace[End(k)].pos > trace[i].pos
        /\ trace[End(i)].pos = trace[i].pos

\* C7: a call of Or_BackTrack that returns calls the node's own
\* error_handle_recovery exactly when no child succeeded (once), never otherwise,
\* and then returns an empty Result.
C7_RecoveryExactlyWhenExhausted ==
    \A i \in Idx : Entered(i, "or_bt") /\ Returned(i) =>
        /\ NoChildSucceeded(i) <=> Cardinality(Own(i, "recovery")) = 1
        /\ ~NoChildSucceeded(i) => Own(i, "recovery") = {}
        /\ NoChildSucceeded(i) => ~trace[End(i)].ok

\* an Or_BackTrack whose two children were tried and failed, and that returned
\* without its own recovery hook having been called
C7_ExhaustedWithoutRecovery ==
    \E i \in Idx : /\ Entered(i, "or_bt") /\ Returned(i) /\ NoChildSucceeded(i)
                   /\ ChildCalls(i, 1) # {} /\ ChildCalls(i, 2) # {}
                   /\ Own(i, "recovery") = {}

-----------------------------------------------------------------------------
(* Repetition *)

\* C2 as stated: no call of Many runs for ever, whatever its child - a child that
\* succeeds without consuming a token included.
C2_ManyAlwaysTerminates ==
    \A i \in Idx : ~(trace[i].e = "hang" /\ trace[i].t = "many")

\* the successful calls of the child that left the cursor where they found it
ZeroWidth(i) ==
    {k \in ChildCalls(i, 1) : Succeeded(k) /\ trace[End(k)].pos = trace[k].pos}

\* C2, amended: a call of Many whose child consumes at least one token each time it
\* succeeds ends (it returns, or an exception leaves it), and when it returns the
\* stream is at EOF, or the child does not peek, or the last call of the child
\* failed.  A call of Many that runs for ever had a zero-width success of its child.
C2_ManyTerminatesWhenChildAdvances ==
    \A i \in Idx : Entered(i, "many") =>
        /\ ZeroWidth(i) = {} => Returned(i) \/ Raised(i)
        /\ Returned(i) =>
              \/ trace[End(i)].pos >= Len(source)
              \/ ~PeekImpl(NodeOf(i).c, At(trace[End(i)].pos))
              \/ Own(i, "recovery") # {}

\* a Many that looped at least twice and stopped before EOF because its child did
\* not peek
C2_ManyStoppedOnPeek ==
    \E i \in Idx : /\ Entered(i, "many") /\ Returned(i)
                   /\ Cardinality(ChildCalls(i, 1)) >= 2
                   /\ ZeroWidth(i) = {}
                   /\ trace[End(i)].pos < Len(source)

-----------------------------------------------------------------------------
(* Local State *)

\* C3: every call of WithState<T> hands its child a T that is freshly constructed:
\* nothing written during an earlier call of the same WithState, or by a sibling,
\* is in it.
C3_LocalStateIsFresh ==
    \A i \in Idx : trace[i].e = "state" => trace[i].val = IntV(0)

\* a second iteration of Many(WithState<T>(...)) that started from what the first
\* iteration wrote
C3_StateCarriedOver ==
    \E i, j \in Idx : /\ i < j
                      /\ trace[i].e = "state" /\ trace[j].e = "state"
                      /\ trace[i].path = trace[j].path
                      /\ trace[i].val = IntV(0) /\ trace[j].val # IntV(0)

-----------------------------------------------------------------------------
(* Sequence and ordered choice *)

\* the calls of Then in which the left child returned a value and the right child
\* returned empty, as <<Then's entry, left's entry, right's entry>>
RightFailed ==
    {c \in Idx \X Idx \X Idx :
        /\ Entered(c[1], "then")
        /\ c[2] \in ChildCalls(c[1], 1) /\ Succeeded(c[2])
        /\ c[3] \in ChildCalls(c[1], 2) /\ Returned(c[3]) /\ ~trace[End(c[3])].ok}

\* C4 as stated: when a succeeds and b fails, Then(a, b) calls its recovery hook and
\* fails, with the cursor where a left it.
C4_CursorStaysWhereLeftChildLeftIt ==
    \A c \in RightFailed :
        /\ trace[End(c[3]) + 1].e = "recovery"
        /\ trace[End(c[3]) + 1].path = trace[c[1]].path
        /\ trace[End(c[3]) + 1].pos = trace[End(c[2])].pos
        /\ Returned(c[1]) => /\ ~trace[End(c[1])].ok
                             /\ trace[End(c[1])].pos = trace[End(c[2])].pos

\* C4, amended: when a succeeds and b fails, Then(a, b) calls its recovery hook with
\* the cursor where b's failed call left it, which is never before the position a
\* left it at, and then fails (returns empty, or the hook throws) without moving
\* the cursor: nothing is rolled back.
C4_CursorStaysWhereRightChildLeftIt ==
    \A c \in RightFailed :
        /\ trace[End(c[3]) + 1].e = "recovery"
        /\ trace[End(c[3]) + 1].path = trace[c[1]].path
        /\ trace[End(c[3]) + 1].pos = trace[End(c[3])].pos
        /\ trace[End(c[3])].pos >= trace[End(c[2])].pos
        /\ trace[End(c[2])].pos >= trace[c[1]].pos
        /\ Returned(c[1]) => /\ ~trace[End(c[1])].ok
                             /\ trace[End(c[1])].pos = trace[End(c[3])].pos
        /\ ~Returned(c[1]) => /\ Raised(c[1])
                              /\ trace[End(c[1]) - 1].path = trace[c[1]].path
                              /\ trace[End(c[1]) - 1].pos = trace[End(c[3])].pos

\* a Then whose left child consumed a token, whose right child failed, and that
\* returned empty with the cursor past its entry position
C4_RightFailedAfterLeftConsumed ==
    \E c \in RightFailed :
        /\ trace[End(c[2])].pos > trace[c[1]].pos
        /\ Returned(c[1])
        /\ trace[End(c[1])].pos > trace[c[1]].pos

\* C5: a call of a|b calls a exactly once and b not at all when a peeks (also when
\* b peeks too); calls b exactly once and a not at all when a does not peek and b
\* does; calls neither when neither peeks.  When the child it called returns empty,
\* a|b calls its recovery hook and fails; the other child is not called.
C5_OrderedChoiceRunsOneChild ==
    \A i \in Idx : Entered(i, "or") =>
        LET st == At(trace[i].pos)
            a == PeekImpl(NodeOf(i).l, st)
            b == PeekImpl(NodeOf(i).r, st)
            first == ChildCalls(i, 1)
            second == ChildCalls(i, 2)
        IN  /\ a => Cardinality(first) = 1 /\ second = {}
            /\ ~a /\ b => first = {} /\ Cardinality(second) = 1
            /\ ~a /\ ~b => first = {} /\ second = {}
            /\ \A k \in first \cup second :
                  /\ trace[k].pos = trace[i].pos
                  /\ Returned(k) /\ ~trace[End(k)].ok =>
                        /\ trace[End(k) + 1].e = "recovery"
                        /\ trace[End(k) + 1].path = trace[i].path
                        /\ Returned(i) => ~trace[End(i)].ok
                  /\ Succeeded(k) =>
                        /\ Returned(i) /\ trace[End(i)].ok
                        /\ trace[End(i)].val = trace[End(k)].val

\* both children peek, the first one was called and failed, and a|b failed without
\* calling the second
C5_FirstChosenAndFailed ==
    \E i \in Idx :
        /\ Entered(i, "or") /\ Returned(i) /\ ~trace[End(i)].ok
        /\ PeekImpl(NodeOf(i).l, At(trace[i].pos))
        /\ PeekImpl(NodeOf(i).r, At(trace[i].pos))
        /\ \E k \in ChildCalls(i, 1) : Returned(k) /\ ~trace[End(k)].ok
        /\ ChildCalls(i, 2) = {}

-----------------------------------------------------------------------------
(* Recovery *)

\* the call entered at i returned what its call of recovery returned
ReturnsRecovery(i) ==
    /\ Cardinality(ChildCalls(i, 2)) = 1
    /\ \A r \in ChildCalls(i, 2) :
          /\ Returned(r) => /\ Returned(i)
                            /\ trace[End(i)].ok = trace[End(r)].ok
                            /\ trace[End(i)].val = trace[End(r)].val
                            /\ trace[End(i)].pos = trace[End(r)].pos
          /\ ~Returned(r) => ~Returned(i)

\* C8 as stated: in every call of TryCatch(a, recovery) in which a does not succeed
\* - a does not peek, a's call returns empty, or a's call raises - recovery is
\* called and TryCatch returns what recovery returns.
C8_RecoveryWheneverParserFails ==
    \A i \in Idx : Entered(i, "try_catch") /\ (\A k \in ChildCalls(i, 1) : ~Succeeded(k)) =>
        ReturnsRecovery(i)

\* C8, amended: TryCatch(a, recovery) calls recovery, and returns what it returns,
\* when a does not peek (a is then not called) and when a's call raises a
\* parser_exception.  When a's call returns, with a value or empty, recovery is not
\* called and TryCatch returns a's Result as it is, cursor included.
C8_RecoveryOnlyOnPeekOrException ==
    \A i \in Idx : Entered(i, "try_catch") =>
        LET a == PeekImpl(NodeOf(i).c, At(trace[i].pos))
        IN  /\ ~a => ChildCalls(i, 1) = {} /\ ReturnsRecovery(i)
            /\ a => Cardinality(ChildCalls(i, 1)) = 1
            /\ \A k \in ChildCalls(i, 1) :
                  /\ Raised(k) => ReturnsRecovery(i)
                  /\ Returned(k) =>
                        /\ ChildCalls(i, 2) = {}
                        /\ Returned(i)
                        /\ trace[End(i)].ok = trace[End(k)].ok
                        /\ trace[End(i)].val = trace[End(k)].val
                        /\ trace[End(i)].pos = trace[End(k)].pos

\* a TryCatch whose parser peeked, was called and returned empty without raising:
\* TryCatch returned empty and recovery was not called
C8_EmptyResultNotRecovered ==
    \E i \in Idx :
        /\ Entered(i, "try_catch") /\ Returned(i) /\ ~trace[End(i)].ok
        /\ \E k \in ChildCalls(i, 1) : Returned(k) /\ ~trace[End(k)].ok
        /\ ChildCalls(i, 2) = {}

\* C9: when a's call raises inside TryCatch(a, recovery, onError), the exception is
\* caught by this TryCatch; on_error is called exactly once, with the exception that
\* was thrown and the Global State, before recovery is entered; recovery is called
\* once, and TryCatch returns what recovery returns.
C9_OnErrorOnceBeforeRecovery ==
    \A i \in Idx : Entered(i, "try_catch") =>
        \A k \in ChildCalls(i, 1) : Raised(k) =>
            LET thrown == trace[End(k) - 1]
            IN  /\ trace[End(k)].e = "catch" /\ trace[End(k)].path = trace[i].path
                /\ Own(i, "on_error") = {End(k) + 1}
                /\ trace[End(k) + 1].x.thrown
                /\ trace[End(k) + 1].x.by = thrown.path
                /\ trace[End(k) + 1].x.error_part = NodeAt(parser, thrown.path).name
                /\ trace[End(k) + 1].val = IntV(trace[End(k) - 1].x)
                /\ ChildCalls(i, 2) = {End(k) + 2}
                /\ ReturnsRecovery(i)

\* a TryCatch with an onError that records the error, whose parser raised after
\* consuming: TryCatch returned recovery's value and the Global State has the record
C9_ExceptionCaughtAndReported ==
    \E i \in Idx :
        /\ Entered(i, "try_catch") /\ Succeeded(i)
        /\ NodeOf(i).on_error = "note"
        /\ \E k \in ChildCalls(i, 1) : Raised(k) /\ trace[End(k)].pos > trace[k].pos
        /\ pc = "returned" /\ global_state > 0

\* C10: every call of Sync(pred) - at the top, or as the recovery of a TryCatch -
\* returns a value and leaves the cursor at the first position at or after the one
\* it started from whose token satisfies pred, or at EOF when there is none; the
\* cursor never moves backwards and the sync token is not consumed.
C10_SyncStopsAtFirstSyncPoint ==
    \A i \in Idx : Entered(i, "sync") /\ ~NodeOf(i).is_after_this =>
        /\ Succeeded(i)
        /\ trace[End(i)].pos >= trace[i].pos
        /\ trace[End(i)].pos <= Len(source)
        /\ trace[End(i)].pos < Len(source) => source[trace[End(i)].pos + 1] = NodeOf(i).v
        /\ \A j \in trace[i].pos .. trace[End(i)].pos - 1 : source[j + 1] # NodeOf(i).v

\* a Sync run as the recovery of a TryCatch that skipped tokens and stopped on a sync
\* token before EOF
C10_RecoverySkippedToSyncPoint ==
    \E i \in Idx :
        /\ Entered(i, "sync") /\ Succeeded(i)
        /\ Len(trace[i].path) > 0
        /\ NodeAt(parser, SubSeq(trace[i].path, 1, Len(trace[i].path) - 1)).t = "try_catch"
        /\ trace[End(i)].pos > trace[i].pos
        /\ trace[End(i)].pos < Len(source)
        /\ position = trace[End(i)].pos

-----------------------------------------------------------------------------
(* Which handler a detected failure reaches *)

\* the handler a node's failure goes to: its own, or the process-wide default
HandlerOf(n) == IF n.eh = "none" THEN error_handler ELSE n.eh

\* C11 as stated: whenever a node detects a failure (it reaches its failure report),
\* then, reporting enabled, exactly one handler is called, once, for that node - its
\* own if OnError set one, else the process-wide default, which throws unless it was
\* replaced - and, reporting disabled with NoError, no handler is called and the
\* node's Parse returns an empty Result.
C11_OneHandlerOrEmptyResult ==
    \A i \in Idx : trace[i].e = "enter" /\ Own(i, "recovery") # {} =>
        LET n == NodeOf(i)
            H == Own(i, "handler")
        IN  IF n.no_error
            THEN H = {} /\ Returned(i) /\ ~trace[End(i)].ok
            ELSE /\ Cardinality(H) = 1
                 /\ \A h \in H : trace[h].x = IF n.eh = "none" THEN "default" ELSE "custom"
                 /\ Own(i, "throw") # {} <=> HandlerOf(n) = "throw"

\* C11, amended: a node reports a failure at most once per call; reporting enabled,
\* the report is followed at once by exactly one handler call for that node, the
\* node's own handler if set and the default otherwise, and the call is left by an
\* exception exactly when that handler throws; reporting disabled, no handler is
\* called and nothing is thrown.  When the call returns, the Result is empty, except
\* for Many, and for More after a first successful iteration, which return the
\* results collected before the failure.
C11_OneHandlerPerDetectedFailure ==
    \A i \in Idx : trace[i].e = "enter" =>
        LET n == NodeOf(i)
            R == Own(i, "recovery")
            H == Own(i, "handler")
            T == Own(i, "throw")
        IN  /\ Cardinality(R) <= 1
            /\ R = {} => H = {} /\ T = {}
            /\ R # {} =>
                  /\ IF n.no_error
                     THEN H = {} /\ T = {} /\ Returned(i)
                     ELSE /\ Cardinality(H) = 1
                          /\ \A r \in R : \A h \in H :
                                /\ h = r + 1
                                /\ trace[h].x = IF n.eh = "none" THEN "default" ELSE "custom"
                          /\ T # {} <=> HandlerOf(n) = "throw"
                          /\ T # {} => Raised(i)
                          /\ T = {} => Returned(i)
                  /\ Returned(i) =>
                        (trace[End(i)].ok <=>
                            \/ n.t = "many"
                            \/ n.t = "more" /\ \E k \in ChildCalls(i, 1) : Succeeded(k))

\* a node whose reporting is disabled detected a failure in the middle of its loop,
\* called no handler and returned the results it had
C11_NoErrorLoopKeptResults ==
    \E i \in Idx :
        /\ Entered(i, "many") /\ NodeOf(i).no_error
        /\ Own(i, "recovery") # {} /\ Own(i, "handler") = {} /\ Succeeded(i)
        /\ trace[End(i)].val = SeqV(<<StrV(<<"a", "b">>)>>)

-----------------------------------------------------------------------------
(* The Error Context of the default handler's exception *)

\* the printable value of the token at pos: what base_token_stream::Value() prints
Printable(pos) == IF pos >= Len(source) THEN <<"E", "O", "F">> ELSE <<source[pos + 1]>>

\* C12: the parser_exception thrown by the default handler has, in error_part, the
\* printable value of the token at the cursor where the failure was detected, or
\* "EOF" at the end of the input, and, in parser_name, the name of the failing node.
C12_ExceptionCarriesErrorContext ==
    pc = "threw" =>
        LET thrown == trace[Len(trace)]
        IN  /\ exception.error_part = Printable(thrown.pos)
            /\ exception.parser_name = NodeAt(parser, thrown.path).name

\* Check('a') failed on the token b: the exception holds the node's name where the
\* token should be, and the token where the node's name should be
C12_FieldsSwapped ==
    /\ pc = "threw"
    /\ parser = A /\ source = <<"b">>
    /\ exception.error_part = <<"a">>
    /\ exception.parser_name = <<"b">>

-----------------------------------------------------------------------------
(* Reuse of a tree *)

\* a new stream over the same tokens, a new Global State and a new Local State,
\* with the statics the tree's state_parser types hold
FreshStart(statics) ==
    [pos |-> 0, glob |-> 0, local |-> statics @@ [s \in {"user"} |-> 0],
     trace |-> <<>>, status |-> "run", exc |-> NoExc, ub |-> FALSE]

\* the Parse overloads a tree compiles with
Entries ==
    {"ParseGlobalState"}
        \cup (IF ~NeedsLocal(parser) THEN {"ParseGlobal"} ELSE {})
        \cup (IF ~NeedsLocal(parser) /\ ~NeedsGlobal(parser) THEN {"Parse"} ELSE {})

\* what a Parse call through one of the overloads yields from a fresh start: how the
\* call ends, the Result, the final cursor and the final Global State
FreshParse(entry, statics) ==
    LET re == IF entry = "ParseGlobalState"
              THEN ParseImpl(parser, <<>>, FreshStart(statics), "user")
              ELSE ParseImpl(parser, <<>>, FreshStart(ResetImpl(parser, statics)), "null")
    IN  [status |-> re.st.status,
         ok |-> Running(re) /\ re.ok,
         val |-> IF Running(re) /\ re.ok THEN re.val ELSE NoValue,
         position |-> re.st.pos,
         global_state |-> re.st.glob]

\* C13: after any number of parses with a tree, a parse of the same input with a
\* fresh stream and a fresh Global State yields what the first parse with the tree
\* yields - the same Result, final Global State and final cursor - through whichever
\* Parse overload, also when the tree has WithState and Lazy nodes.
C13_TreeIsReusable ==
    \A entry \in Entries :
        FreshParse(entry, newState) = FreshParse(entry, [ty \in StateTypes |-> 0])

\* Parse(stream, global_state) has run once over a a with a tree whose WithState sits
\* behind a Lazy node: the static Local State still holds 2, and the same parse run
\* again ends with Global State 7 where the first one ended with 3
C13_SecondParseDiffers ==
    /\ parser = Lazy("counted") /\ source = <<"a", "a">>
    /\ pc = "returned" /\ calls = 1 /\ global_state = 3
    /\ newState["S1"] = 2
    /\ FreshParse("ParseGlobal", newState).global_state = 7

-----------------------------------------------------------------------------
(* Sequencing *)

\* a sequence of three value-producing primitives, grouped either way
IsChainOfThree(n) ==
    /\ n.t = "then"
    /\ \/ n.l.t = "then" /\ {n.l.l.t, n.l.r.t, n.r.t} \subseteq {"single", "str"}
       \/ n.r.t = "then" /\ {n.l.t, n.r.l.t, n.r.r.t} \subseteq {"single", "str"}

\* the same three parsers grouped the other way
Regrouped(n) ==
    IF n.l.t = "then" THEN Then(n.l.l, Then(n.l.r, n.r)) ELSE Then(Then(n.l, n.r.l), n.r.r)

\* C14: (a>>b)>>c and a>>(b>>c), a, b and c yielding values, accept the same inputs,
\* consume the same tokens and yield the same result, the flat tuple (ra, rb, rc):
\* a call of either grouping ends as the other grouping's call from the same cursor
\* ends, and the value returned is a tuple of three values none of which is a tuple.
C14_SequencingIsAssociative ==
    \A i \in Idx : trace[i].e = "enter" /\ IsChainOfThree(NodeOf(i)) /\ Returned(i) =>
        LET other == ParseImpl(Regrouped(NodeOf(i)), trace[i].path,
                               [FreshStart(newState) EXCEPT !.pos = trace[i].pos], "null")
            exit == trace[End(i)]
        IN  /\ Running(other)
            /\ exit.ok = other.ok
            /\ exit.pos = other.st.pos
            /\ exit.ok =>
                  /\ exit.val = other.val
                  /\ exit.val.k = "tuple" /\ Len(exit.val.e) = 3
                  /\ \A j \in 1 .. 3 : exit.val.e[j].k # "tuple"

\* a>>(b>>c) has matched a b c and returned the pair (a, (b, c))
C14_RightGroupingNests ==
    /\ parser = Then(SingleValue("a"), Then(SingleValue("b"), SingleValue("c")))
    /\ pc = "returned" /\ result.ok /\ position = 3
    /\ result.val = TupV(<<TokV("a"), TupV(<<TokV("b"), TokV("c")>>)>>)

\* C15: a >> Check(x) succeeds exactly when a succeeds and the token where a stopped
\* is x; it then returns the value a returned (the unit value when a's result type
\* is unit) and leaves the cursor one token past the x.
C15_UnitAbsorption ==
    \A i \in Idx : Entered(i, "then") /\ NodeOf(i).r.t = "check" =>
        LET x == NodeOf(i).r.v
            Matched == {k \in ChildCalls(i, 1) :
                           /\ Succeeded(k)
                           /\ trace[End(k)].pos < Len(source)
                           /\ source[trace[End(k)].pos + 1] = x}
        IN  /\ Succeeded(i) <=> Matched # {}
            /\ \A k \in Matched :
                  /\ trace[End(i)].val =
                        IF IsUnit(NodeOf(i).l) THEN Unit ELSE trace[End(k)].val
                  /\ trace[End(i)].pos = trace[End(k)].pos + 1

\* *SingleValue('a') >> Check('b') has matched a a b: the result is the two a's and
\* the cursor is past the b
C15_CheckConsumedAndDropped ==
    /\ parser = Then(Many(SingleValue("a")), B)
    /\ source = <<"a", "a", "b">>
    /\ pc = "returned" /\ result.ok /\ position = 3
    /\ result.val = SeqV(<<TokV("a"), TokV("a")>>)

-----------------------------------------------------------------------------
(* Lookahead *)

C17_LookaheadIsZeroWidth ==
    \A i \in Idx : Entered(i, "not") \/ Entered(i, "pred") =>
        LET c_peeks == PeekImpl(NodeOf(i).c, At(trace[i].pos))
        IN  /\ Returned(i)
            /\ trace[End(i)].pos = trace[i].pos
            /\ ChildCalls(i, 1) = {}
            /\ trace[End(i)].ok <=> IF trace[i].t = "not" THEN ~c_peeks ELSE c_peeks
            /\ trace[End(i)].ok => trace[End(i)].val = Unit

\* in Check('a') >> !Check('b') over a b, the Not node was asked after the a was
\* consumed and failed with the cursor still before the b
C17_NotFailedInPlace ==
    /\ parser = Then(A, Not(B)) /\ source = <<"a", "b">>
    /\ position = 1
    /\ \E i \in Idx : Entered(i, "not") /\ trace[i].pos = 1 /\ Returned(i) /\ ~Succeeded(i)

-----------------------------------------------------------------------------
(* Repetition with a failing iteration *)

\* the j-th smallest element of a set of trace positions
Nth(S, j) == CHOOSE k \in S : Cardinality({m \in S : m <= k}) = j

\* C18: when a call of Many(c) or More(c) returns (no handler raised), no iteration
\* follows a failed one; Many succeeded, More succeeded exactly when its first
\* iteration did; and the value of a successful call is made of the values of the
\* iterations that succeeded, in input order (unit when c yields unit).
C18_LoopKeepsPartialResults ==
    \A i \in Idx : (Entered(i, "many") \/ Entered(i, "more")) /\ Returned(i) =>
        LET calls_c == ChildCalls(i, 1)
            good == {k \in calls_c : Succeeded(k)}
            exit == trace[End(i)]
        IN  /\ \A f \in calls_c \ good : \A k \in calls_c : k <= f
            /\ exit.ok <=>
                  \/ trace[i].t = "many"
                  \/ calls_c # {} /\ Min(calls_c) \in good
            /\ exit.ok =>
                  IF IsUnit(NodeOf(i).c) THEN exit.val = Unit
                  ELSE /\ exit.val.k = "seq"
                       /\ Len(exit.val.e) = Cardinality(good)
                       /\ \A j \in 1 .. Cardinality(good) :
                             exit.val.e[j] = trace[End(Nth(good, j))].val

\* *Str("ab") over a b a with a handler that returns: the second iteration failed,
\* the loop stopped and Many returned the one "ab" it had
C18_StoppedAfterFailedIteration ==
    /\ parser = Many(Str(<<"a", "b">>)) /\ source = <<"a", "b", "a">>
    /\ error_handler = "quiet"
    /\ pc = "returned" /\ result.ok
    /\ result.val = SeqV(<<StrV(<<"a", "b">>)>>)
    /\ \E i \in Idx : Entered(i, "str") /\ trace[i].pos = 2 /\ Returned(i) /\ ~Succeeded(i)

-----------------------------------------------------------------------------
(* Optional *)

\* C19: Optional(c) peeks true at every cursor; a call of it where c's Peek is false
\* succeeds with the absent value, at the cursor where it was entered and without
\* calling c; a call where c's Peek is true calls c once and, c succeeding, yields
\* c's value at the cursor where c stopped, and, c failing, does not succeed.
C19_OptionalNeverFailsFromAbsence ==
    \A i \in Idx : Entered(i, "optional") =>
        LET c_peeks == PeekImpl(NodeOf(i).c, At(trace[i].pos))
            calls_c == ChildCalls(i, 1)
            exit == trace[End(i)]
        IN  /\ \A pos \in 0 .. Len(source) : PeekImpl(NodeOf(i), At(pos))
            /\ ~c_peeks =>
                  /\ Succeeded(i)
                  /\ exit.val = OptV(FALSE, NoValue)
                  /\ exit.pos = trace[i].pos
                  /\ calls_c = {}
            /\ c_peeks =>
                  /\ Cardinality(calls_c) = 1
                  /\ \A k \in calls_c :
                        IF Succeeded(k)
                        THEN /\ Succeeded(i)
                             /\ exit.val = OptV(TRUE, trace[End(k)].val)
                             /\ exit.pos = trace[End(k)].pos
                        ELSE ~Succeeded(i)

\* -SingleValue('a') >> Check('b') over b: the optional found no a, yielded the
\* absent value without moving, and the sequence went on to match the b
C19_AbsentValueYielded ==
    /\ parser = Then(Optional(SingleValue("a")), B) /\ source = <<"b">>
    /\ pc = "returned" /\ result.ok /\ position = 1
    /\ result.val = OptV(FALSE, NoValue)
    /\ \E i \in Idx : Entered(i, "optional") /\ Succeeded(i) /\ trace[End(i)].pos = 0

-----------------------------------------------------------------------------
(* The primitive matchers *)

\* the tokens a primitive matcher compares the input with
Literal(n) == IF n.t \in {"check", "single"} THEN <<n.v>> ELSE n.lit

\* the input holds the literal at pos
StartsWith(pos, lit) ==
    /\ pos + Len(lit) <= Len(source)
    /\ \A j \in 1 .. Len(lit) : source[pos + j] = lit[j]

\* C20: a call of Check, SingleValue, SeqCheck or Str succeeds exactly when the input
\* at the cursor starts with the node's token or literal, and then leaves the cursor
\* right after it; otherwise - also when the input ends before the literal does -
\* it fails with the cursor where it was.
C20_PrimitivesAreAllOrNothing ==
    \A i \in Idx :
        trace[i].e = "enter" /\ trace[i].t \in {"check", "single", "seq_check", "str"} =>
            LET lit == Literal(NodeOf(i))
            IN  /\ Succeeded(i) <=> StartsWith(trace[i].pos, lit)
                /\ Succeeded(i) => trace[End(i)].pos = trace[i].pos + Len(lit)
                /\ ~Succeeded(i) =>
                      \A k \in Idx : k > i /\ k <= End(i) /\ trace[k].path = trace[i].path
                                        => trace[k].pos = trace[i].pos

\* Str over a literal that ends with the token the stream returns past its end: on
\* the input a the parser matched two tokens and left the cursor at 2, past the end
C20_StrMatchedPastTheEnd ==
    /\ parser = Str(<<"a", NUL>>) /\ source = <<"a">>
    /\ pc = "returned" /\ result.ok
    /\ position = 2 /\ position > Len(source)

-----------------------------------------------------------------------------
(* Until *)

\* the first position from pos on that holds v, or the end of the input
FirstStop(pos, v) ==
    Min({k \in pos .. Len(source) : k = Len(source) \/ source[k + 1] = v})

\* C21: a call of Until(v) entered at v or at the end of the input returns an empty
\* Result with the cursor unmoved; any other call succeeds with the tokens from the
\* cursor up to, not including, the next v and leaves the cursor on that v, or at
\* the end of the input when no v follows.
C21_UntilStopsBeforeValue ==
    \A i \in Idx : Entered(i, "until") =>
        LET pos == trace[i].pos
            stop == FirstStop(pos, NodeOf(i).v)
            exit == trace[End(i)]
        IN  /\ Returned(i)
            /\ exit.pos = stop
            /\ exit.ok <=> stop # pos
            /\ exit.ok =>
                  exit.val = SeqV([j \in 1 .. stop - pos |-> TokV(source[pos + j])])

\* Check('a') >> Until('b') >> Check('b') over a c b: Until collected the c and
\* stopped on the b, which the closing Check then consumed
C21_CollectedUpToTheValue ==
    /\ parser = Then(A, Then(Until("b"), B)) /\ source = <<"a", "c", "b">>
    /\ pc = "returned" /\ result.ok /\ position = 3
    /\ result.val = SeqV(<<TokV("c")>>)
    /\ \E i \in Idx : Entered(i, "until") /\ trace[i].pos = 1 /\ trace[End(i)].pos = 2

-----------------------------------------------------------------------------
(* The self-referential digit grammar *)

\* where the run of digits that starts at pos ends
DigitsEnd(pos) ==
    Min({k \in pos .. Len(source) : k = Len(source) \/ source[k + 1] \notin Digits})

\* the sum of the digits at positions from+1 .. to, taken from the right
RECURSIVE SumDigits(_, _)
SumDigits(from, to) ==
    IF from >= to THEN 0 ELSE DigitValue(source[from + 1]) + SumDigits(from + 1, to)

\* C22: a call of the digit grammar entered on a digit returns, with the cursor
\* after the run of digits - at the end of a string of digits - and with the sum of
\* those digits; a Lazy node makes one call of the parser it refers to and returns
\* what that call returns, peeks as that parser peeks, and reports nothing itself.
C22_LazyDigitsSum ==
    /\ \A i \in Idx :
          trace[i].e = "enter" /\ NodeOf(i) = lazy_parser
              /\ trace[i].pos < Len(source) /\ source[trace[i].pos + 1] \in Digits =>
                  /\ Succeeded(i)
                  /\ trace[End(i)].pos = DigitsEnd(trace[i].pos)
                  /\ trace[End(i)].val = IntV(SumDigits(trace[i].pos, DigitsEnd(trace[i].pos)))
    /\ \A i \in Idx : Entered(i, "lazy") =>
          /\ Own(i, "recovery") = {} /\ Own(i, "handler") = {}
          /\ ChildCalls(i, 1) = {i + 1}
          /\ PeekImpl(NodeOf(i), At(trace[i].pos))
                = PeekImpl(Real(NodeOf(i).real), At(trace[i].pos))
          /\ Returned(i) =>
                /\ Returned(i + 1) /\ End(i + 1) = End(i) - 1
                /\ trace[End(i)].ok = trace[End(i) - 1].ok
                /\ trace[End(i)].val = trace[End(i) - 1].val
                /\ trace[End(i)].pos = trace[End(i) - 1].pos

\* the LazyParser test: "123" was consumed whole and gave 1 + (2 + 3) = 6
C22_OneTwoThreeGivesSix ==
    /\ parser = lazy_parser /\ source = <<"1", "2", "3">>
    /\ pc = "returned" /\ result = [ok |-> TRUE, val |-> IntV(6)]
    /\ position = 3
    /\ Cardinality({i \in Idx : Entered(i, "lazy")}) = 3

-----------------------------------------------------------------------------
(* Local and Global State under WithState *)

\* the grammar of the StateParser test: WithState(Many(Action(matcher, count)))
IsCounter(p) ==
    /\ p.t = "state" /\ p.c.t = "many" /\ p.c.c.t = "action" /\ p.c.c.f = "count"
    /\ p.c.c.c.t \in {"check", "seq_check"}

\* how many consecutive copies of lit the input holds from pos on
RECURSIVE Copies(_, _)
Copies(pos, lit) == IF StartsWith(pos, lit) THEN 1 + Copies(pos + Len(lit), lit) ELSE 0

-----------------------------------------------------------------------------
(* file_stream against the in-memory stream *)

\* C24: whatever calls were made before, a Get, Peek(k) or Eof(k) on the file_stream
\* returns what the same call returns on the in-memory stream over the same bytes
\* (the end-of-input character of the one standing for that of the other).
C24_FileStreamMatchesMemory ==
    returned.op \in {"Get", "Peek", "Eof"} =>
        \/ returned.file = returned.memory
        \/ returned.op # "Eof" /\ returned.file = "EOF" /\ returned.memory = NUL

\* over the file a b c d e, after Seek(2) and a Get that returned c, the next Get
\* returned b, a byte before the cursor, where the in-memory stream returned d
C24_ConsumedByteReadAgain ==
    /\ source = <<"a", "b", "c", "d", "e">>
    /\ returned = [op |-> "Get", file |-> "b", memory |-> "d"]
    /\ position = 4
    /\ file_stream.mark_pos = 3 /\ file_stream.position = 5

\* C25: on every back-end Value() is the printable form of the token that the
\* stream's Peek(0) returns, or "EOF" when the stream is at the end of its input.
C25_ValueIsTokenAtCursor ==
    returned.op = "Value" =>
        /\ returned.memory = Printable(position)
        /\ returned.file =
              IF eof_impl(file_stream, 0).c THEN <<"E", "O", "F">>
              ELSE <<peek_impl(file_stream, 0).c>>
        /\ returned.mmap = Printable(position)

\* the cursor is on the b of a b c: the in-memory stream prints b, the
\* mmap_file_stream prints the a before the cursor
C25_MmapPrintsTokenBeforeCursor ==
    /\ source = <<"a", "b", "c">> /\ position = 1
    /\ returned.op = "Value"
    /\ returned.memory = <<"b">>
    /\ returned.mmap = <<"a">>

\* C26: a call of Or_BackTrack(a, b) that returns after a was not tried or failed,
\* b not having been tried because its Peek was false, returns the empty Result -
\* a well-defined one, that holds no value.
C26_OrBackTrackAlwaysReturnsAResult ==
    \A i \in Idx :
        (/\ Entered(i, "or_bt") /\ Returned(i)
         /\ NoChildSucceeded(i) /\ ChildCalls(i, 2) = {}) =>
            /\ Own(i, "no_return") = {}
            /\ ~trace[End(i)].ok
            /\ trace[End(i)].val = NoValue

\* a failed, b did not peek, control left parse_impl without a return statement and
\* the caller read a Result that holds a value
C26_FellOffTheEndWithAValue ==
    \E i \in Idx : /\ Entered(i, "or_bt") /\ Returned(i)
                   /\ ChildCalls(i, 1) # {} /\ NoChildSucceeded(i)
                   /\ ChildCalls(i, 2) = {}
                   /\ Own(i, "no_return") # {}
                   /\ trace[End(i)].ok

-----------------------------------------------------------------------------
(* The cursor and the end of input *)

\* C27: after any Parse call that completed, by returning or by an exception, the
\* cursor of the in-memory stream is at most the number of tokens of the source.
C27_CursorNeverPastTheEnd ==
    pc \in {"returned", "threw"} => position <= Len(source)

\* Sync with is_after_this = true found no sync token, reached EOF and stepped one
\* position further
C27_SyncSteppedPastTheEnd ==
    /\ pc = "returned"
    /\ position = Len(source) + 1
    /\ \E i \in Idx : /\ Entered(i, "sync") /\ NodeOf(i).is_after_this /\ Returned(i)
                      /\ trace[i].pos <= Len(source)
                      /\ \A j \in trace[i].pos + 1 .. Len(source) : source[j] # NodeOf(i).v
                      /\ trace[End(i)].pos = Len(source) + 1

-----------------------------------------------------------------------------
(* Recovery after an exception *)

\* C28: when the call of a made by TryCatch(a, r) is left by a parser_exception,
\* r is called once, and its call starts where the cursor was when the exception
\* was raised - at or after the position at which TryCatch was entered, the tokens
\* a consumed before raising being behind the cursor.
C28_RecoveryStartsWhereExceptionWasRaised ==
    \A i \in Idx : Entered(i, "try_catch") =>
        \A k \in ChildCalls(i, 1) : Raised(k) =>
            /\ Cardinality(ChildCalls(i, 2)) = 1
            /\ \A r \in ChildCalls(i, 2) :
                  /\ r > End(k)
                  /\ trace[r].pos = trace[End(k) - 1].pos
                  /\ trace[r].pos >= trace[i].pos

\* a raised after consuming two tokens and recovery started two tokens past the
\* position at which TryCatch was entered
C28_RecoveryStartedPastConsumedTokens ==
    \E i \in Idx : /\ Entered(i, "try_catch")
                   /\ \E k \in ChildCalls(i, 1) : \E r \in ChildCalls(i, 2) :
                         /\ Raised(k)
                         /\ trace[End(k) - 1].pos = trace[i].pos + 2
                         /\ trace[r].pos = trace[i].pos + 2

\* C29: TryCatch(a, r) peeks exactly where a peeks; so a call of Many(TryCatch(a, r))
\* enters TryCatch only where a peeks, and when a does not peek at the position at
\* which Many is entered, Many returns at once - no call of TryCatch, hence none of
\* r, the empty collection as its value, the cursor where it was.
C29_GuardedTryCatchDoesNotRecover ==
    \A i \in Idx : (Entered(i, "many") /\ NodeOf(i).c.t = "try_catch") =>
        /\ \A pos \in 0 .. Len(source) + 1 :
              PeekImpl(NodeOf(i).c, At(pos)) = PeekImpl(NodeOf(i).c.c, At(pos))
        /\ \A k \in ChildCalls(i, 1) : PeekImpl(NodeOf(i).c.c, At(trace[k].pos))
        /\ ~PeekImpl(NodeOf(i).c.c, At(trace[i].pos)) =>
              /\ End(i) = i + 1
              /\ Succeeded(i)
              /\ trace[End(i)].pos = trace[i].pos
              /\ trace[End(i)].val = ManyValue(NodeOf(i), <<>>)

\* Many(TryCatch(a, Sync)) has collected one result and meets a token on which a
\* does not peek, the sync token being there or further on: it returns with the
\* cursor on the token it met, and recovery did not run
C29_StoppedBeforeTheSyncToken ==
    \E i \in Idx :
        /\ Entered(i, "many") /\ NodeOf(i).c.t = "try_catch"
        /\ NodeOf(i).c.recovery.t = "sync"
        /\ Succeeded(i)
        /\ Cardinality(ChildCalls(i, 1)) = 1
        /\ \A k \in ChildCalls(i, 1) : Succeeded(k) /\ ChildCalls(k, 2) = {}
        /\ ~PeekImpl(NodeOf(i).c.c, At(trace[End(i)].pos))
        /\ \E j \in trace[End(i)].pos + 1 .. Len(source) : source[j] = NodeOf(i).c.recovery.v
        /\ position = trace[End(i)].pos

-----------------------------------------------------------------------------
(* The name buffer *)

\* C30: naming a node and constructing a node from a char literal never write
\* outside the 20 chars of parser_name, however long the name or the literal.
C30_NameStaysInsideTheBuffer ==
    \A i \in NameSize + 1 .. MaxName : parser_name[i] = Other

\* a name of 21 chars was set: the buffer is full and its last char went into the
\* byte that follows the buffer
C30_NameOverranTheBuffer ==
    /\ calls = 1
    /\ parser.t = "check" /\ Len(parser.name) = NameSize + 1
    /\ \A i \in 1 .. NameSize + 1 : parser_name[i] = "a"
    /\ parser_name[NameSize + 2] = Other

=============================================================================
